---- MODULE Spec2Model ----
(***************************************************************************)
(* Attendance ingestion and reconciliation engine of AMS-SPIT-BACKEND:     *)
(* the division-sheet upload (routes/attendance.js), bulk marking, the     *)
(* defaulter report and the periodic allocation sync worker.               *)
(*                                                                         *)
(* Conventions.  Columns and rows are numbered from 0 as in the source;    *)
(* At(row, c) reads a cell the way row[c] does (an index outside the row   *)
(* reads as the empty cell).  A cell's text is represented by what the     *)
(* source's regular expressions and includes() calls extract from it (its  *)
(* keywords, the subject code in front of "(TH)" or "(LAB)", the TOTAL     *)
(* figure, the batch map, its numeric value).  Numbers that the source     *)
(* keeps as floating point are exact rationals [n, d] here.  JS null,      *)
(* undefined and 0 are all falsy and the source only ever tests totals for *)
(* truthiness, so an absent total is 0.                                    *)
(***************************************************************************)
EXTENDS Integers, Sequences, FiniteSets, TLC

(***************************************************************************)
(* Bounds of the model.                                                    *)
(***************************************************************************)
\* Documents saved by /mark that no upload has merged into yet
MaxMarks == 1

\* Invocations of syncAllocationStudents
MaxSyncCalls == 2

\* Summaries stored ahead of a defaulter report
MaxSummaries == 2

(***************************************************************************)
(* Small helpers.                                                          *)
(***************************************************************************)
MinOf(S) == CHOOSE x \in S : \A y \in S : x <= y

MaxOf(S) == CHOOSE x \in S : \A y \in S : x >= y

Max2(a, b) == IF a >= b THEN a ELSE b

Min2(a, b) == IF a <= b THEN a ELSE b

RECURSIVE Gcd(_, _)
Gcd(a, b) == IF b = 0 THEN a ELSE Gcd(b, a % b)

\* A JS number: NaN, or the exact rational n/d (d > 0, lowest terms).
NaN == [k |-> "nan", n |-> 0, d |-> 1]

Rat(n, d) ==
  LET g == Gcd(IF n < 0 THEN -n ELSE n, d)
  IN  IF n = 0 THEN [k |-> "num", n |-> 0, d |-> 1]
      ELSE [k |-> "num", n |-> n \div g, d |-> d \div g]

Int2Rat(i) == Rat(i, 1)

IsNaN(x) == x.k = "nan"

\* x < y, x > y, x <= y on JS numbers: every comparison with NaN is false.
NumLt(x, y) == x.k = "num" /\ y.k = "num" /\ x.n * y.d < y.n * x.d

NumGt(x, y) == NumLt(y, x)

NumLe(x, y) == x.k = "num" /\ y.k = "num" /\ x.n * y.d <= y.n * x.d

NumGe(x, y) == NumLe(y, x)

\* Math.round (half up) and Math.ceil of a non-negative number.
MathRound(x) == (2 * x.n + x.d) \div (2 * x.d)

MathCeil(x) == (x.n + x.d - 1) \div x.d

\* (a / p) * 100 and a * 1.2
DivTimes100(a, p) == Rat(a.n * p.d * 100, a.d * p.n)

Times1_2(a) == Rat(a.n * 6, a.d * 5)

(***************************************************************************)
(* Cells.                                                                  *)
(*   kw     keywords the upper-cased text contains                         *)
(*   th     the code matched by /([A-Z]{2,4})\s*\(TH\)/       (<<>>: none) *)
(*   lab    the code matched by /([A-Z]{2,4})\s*\(LAB\)/ or ...\s*LAB/     *)
(*   bare   the text itself when it matches /^[A-Z]{2,4}$/                 *)
(*   total  the figure matched by /TOTAL[=\s:]*(\d+)/            (0: none) *)
(*   batch  parseBatchInfo(text)                                           *)
(*   per    the date range matched by the period patterns      ("": none)  *)
(*   txt    the trimmed text, where the source compares it (the UID,       *)
(*          the batch letter)                                              *)
(*   num    parseFloat(text)                                               *)
(*   empty  the text is ''                                                 *)
(***************************************************************************)
NoCode == << >>

NoBatchInfo == [b \in {} |-> 0]

Blank ==
  [kw |-> {}, th |-> NoCode, lab |-> NoCode, bare |-> NoCode, total |-> 0,
   batch |-> NoBatchInfo, per |-> "", txt |-> "", num |-> NaN, empty |-> TRUE]

Txt(s) == [Blank EXCEPT !.txt = s, !.empty = FALSE]

Kw(ks) == [Blank EXCEPT !.kw = ks, !.empty = FALSE]

PeriodCell(p) == [Blank EXCEPT !.per = p, !.empty = FALSE]

NumCell(n, d) == [Blank EXCEPT !.num = Rat(n, d), !.empty = FALSE]

\* 'SE (Th) - Total = 32'; total 0 when the cell carries no Total figure.
ThCell(code, total) ==
  [Blank EXCEPT !.kw = {"(TH)"}, !.th = code, !.total = total, !.empty = FALSE]

\* 'SE (Lab)  A=10, B=11'
LabCell(code, bi) ==
  [Blank EXCEPT !.kw = {"(LAB)", "LAB"}, !.lab = code, !.batch = bi, !.empty = FALSE]

\* a bare code such as 'SE'
BareCell(code) == [Blank EXCEPT !.bare = code, !.empty = FALSE]

At(row, c) == IF c >= 0 /\ c < Len(row) THEN row[c + 1] ELSE Blank

RowAt(sheetData, i) == IF i >= 0 /\ i < Len(sheetData) THEN sheetData[i + 1] ELSE << >>

\* row.join(' ').toUpperCase().includes(k)
RowIncludes(row, k) == \E c \in 0..(Len(row) - 1) : k \in At(row, c).kw

\* headers.findIndex(h => ...): the first column whose text has a keyword of ks
FindIndex(row, ks) ==
  LET S == {c \in 0..(Len(row) - 1) : At(row, c).kw \cap ks # {}}
  IN  IF S = {} THEN -1 ELSE MinOf(S)

\* parseBatchInfo: the map of batch letter to total parsed from a cell
parseBatchInfo(cell) == cell.batch

\* batchInfo[b], undefined (falsy) when b is not a key
BatchGet(bi, b) == IF b \in DOMAIN bi THEN bi[b] ELSE 0

(***************************************************************************)
(* Layout inference (processDivisionSheet, first half).                    *)
(***************************************************************************)
\* The first of the first 10 rows whose text has ROLL and (UID or STUDENT).
headerRowIndex(sheetData) ==
  LET S == {i \in 0..(Min2(10, Len(sheetData)) - 1) :
              /\ RowIncludes(RowAt(sheetData, i), "ROLL")
              /\ \/ RowIncludes(RowAt(sheetData, i), "UID")
                 \/ RowIncludes(RowAt(sheetData, i), "STUDENT")}
  IN  IF S = {} THEN -1 ELSE MinOf(S)

Headers(sheetData) == RowAt(sheetData, headerRowIndex(sheetData))

\* sheetData[headerRowIndex - 1] || [] (sheetData[-1] is undefined)
SubjectRow(sheetData) == RowAt(sheetData, headerRowIndex(sheetData) - 1)

SubjectRowAbove(sheetData) ==
  IF headerRowIndex(sheetData) >= 2
    THEN RowAt(sheetData, headerRowIndex(sheetData) - 2)
    ELSE << >>

rollCol(sheetData) == FindIndex(Headers(sheetData), {"ROLL"})

uidCol(sheetData) == FindIndex(Headers(sheetData), {"UID"})

nameCol(sheetData) == FindIndex(Headers(sheetData), {"NAME", "STUDENT"})

divCol(sheetData) == FindIndex(Headers(sheetData), {"DIV", "BATCH"})

\* The category scan stops at the first LAB/PRACTICAL cell.
labStartCol(sheetData) == FindIndex(SubjectRowAbove(sheetData), {"LAB", "PRACTICAL"})

theoryStartCol(sheetData) ==
  LET cat == SubjectRowAbove(sheetData)
      lab == labStartCol(sheetData)
      S   == {c \in 0..(Len(cat) - 1) :
                "THEORY" \in At(cat, c).kw /\ (lab = -1 \/ c <= lab)}
  IN  IF S = {} THEN -1 ELSE MinOf(S)

\* The rows and the band limits that the classification of a column reads
Grid(sheetData) ==
  [headers         |-> Headers(sheetData),
   subjectRow      |-> SubjectRow(sheetData),
   subjectRowAbove |-> SubjectRowAbove(sheetData),
   labStartCol     |-> labStartCol(sheetData),
   theoryStartCol  |-> theoryStartCol(sheetData)]

\* What the (TH) / (LAB) / TOTAL patterns match in `${above} ${cell}`: the
\* leftmost match, so the row above wins when it has one.
ThOf(above, cell) == IF above.th # NoCode THEN above.th ELSE cell.th

LabOf(above, cell) == IF above.lab # NoCode THEN above.lab ELSE cell.lab

TotalOf(above, cell) == IF above.total # 0 THEN above.total ELSE cell.total

\* parseBatchInfo(`${above} ${cell}`): later matches overwrite earlier ones
BatchOfCombined(above, cell) ==
  [b \in (DOMAIN above.batch) \cup (DOMAIN cell.batch) |->
     IF b \in DOMAIN cell.batch THEN cell.batch[b] ELSE above.batch[b]]

\* The first non-empty parseBatchInfo(subjectRow[adj]) for adj in lo..hi, skip excluded
AdjacentBatchInfo(subjectRow, lo, hi, skip) ==
  LET S == {a \in Max2(0, lo)..Min2(Len(subjectRow) - 1, hi) :
              a # skip /\ DOMAIN parseBatchInfo(At(subjectRow, a)) # {}}
  IN  IF S = {} THEN NoBatchInfo ELSE parseBatchInfo(At(subjectRow, MinOf(S)))

percentageCol(headers, col) ==
  IF col + 1 < Len(headers) /\ "%" \in At(headers, col + 1).kw THEN col + 1 ELSE -1

NotFound == [found |-> FALSE]

\* findLabSubject: every match in startCol..endCol overwrites the previous one.
findLabSubject(subjectRow, subjectRowAbove, startCol, endCol) ==
  LET S == {c \in Max2(0, startCol)..Min2(Len(subjectRow) - 1, endCol) :
              LabOf(At(subjectRowAbove, c), At(subjectRow, c)) # NoCode}
  IN  IF S = {} THEN [subjectCode |-> NoCode, batchInfo |-> NoBatchInfo]
      ELSE LET c   == MaxOf(S)
               sa  == At(subjectRowAbove, c)
               sr  == At(subjectRow, c)
               b1  == parseBatchInfo(sr)
               b2  == IF DOMAIN b1 # {} THEN b1 ELSE BatchOfCombined(sa, sr)
               b3  == IF DOMAIN b2 # {} THEN b2
                      ELSE AdjacentBatchInfo(subjectRow, c - 4, c + 4, -1)
           IN  [subjectCode |-> LabOf(sa, sr), batchInfo |-> b3]

\* Lines 657-675: a column at or right of labStartCol.
LabSubject(found, headers, lab, division, col) ==
  IF lab # -1 /\ col >= lab /\ found.subjectCode # NoCode
    THEN [found |-> TRUE, name |-> found.subjectCode, type |-> "Practical",
          totalLectures |-> BatchGet(found.batchInfo, division),
          batchInfo |-> found.batchInfo, attendedCol |-> col,
          percentageCol |-> percentageCol(headers, col)]
    ELSE NotFound

LabBandSubject(grid, division, col) ==
  LabSubject(findLabSubject(grid.subjectRow, grid.subjectRowAbove,
                            grid.labStartCol, col),
             grid.headers, grid.labStartCol, division, col)

\* Lines 677-809: the first column of col-6..col+6 that declares a subject.
WindowSubject(grid, division, col) ==
  LET sr == grid.subjectRow
      sa == grid.subjectRowAbove
      S  == {b \in Max2(0, col - 6)..Min2(Len(sr) - 1, col + 6) :
               \/ ThOf(At(sa, b), At(sr, b)) # NoCode
               \/ LabOf(At(sa, b), At(sr, b)) # NoCode}
  IN  IF S = {} THEN NotFound
      ELSE LET backCol == MinOf(S)
               above   == At(sa, backCol)
               cell    == At(sr, backCol)
               b1 == IF ~cell.empty THEN parseBatchInfo(cell) ELSE NoBatchInfo
               b2 == IF DOMAIN b1 # {} THEN b1 ELSE BatchOfCombined(above, cell)
               b3 == IF DOMAIN b2 # {} THEN b2
                     ELSE AdjacentBatchInfo(sr, backCol - 3, backCol + 3, backCol)
           IN  IF ThOf(above, cell) # NoCode
                 THEN [found |-> TRUE, name |-> ThOf(above, cell), type |-> "Theory",
                       totalLectures |-> TotalOf(above, cell),
                       batchInfo |-> NoBatchInfo, attendedCol |-> col,
                       percentageCol |-> percentageCol(grid.headers, col)]
                 ELSE [found |-> TRUE, name |-> LabOf(above, cell), type |-> "Practical",
                       totalLectures |-> BatchGet(b3, division),
                       batchInfo |-> b3, attendedCol |-> col,
                       percentageCol |-> percentageCol(grid.headers, col)]

\* Lines 812-892: the expanding window, nearest column first (left of col while
\* there is one, else right of it).
FallbackSubject(grid, division, col) ==
  LET sr  == grid.subjectRow
      sa  == grid.subjectRowAbove
      th  == grid.theoryStartCol
      lab == grid.labStartCol
      testCol(i) == IF col - i >= 0 THEN col - i ELSE col + i
      isTheory(t) == th # -1 /\ t >= th
                     /\ t < (IF lab # -1 THEN lab ELSE Len(grid.headers))
      isLab(t) == lab # -1 /\ t >= lab
      coded(t) == \/ ThOf(At(sa, t), At(sr, t)) # NoCode
                  \/ LabOf(At(sa, t), At(sr, t)) # NoCode
      simple(t) == At(sr, t).bare # NoCode /\ (isTheory(t) \/ isLab(t))
      S == {i \in 1..6 : /\ (col - i >= 0 \/ col + i < Len(sr))
                         /\ (coded(testCol(i)) \/ simple(testCol(i)))}
  IN  IF col <= 0 \/ S = {} THEN NotFound
      ELSE LET t     == testCol(MinOf(S))
               above == At(sa, t)
               cell  == At(sr, t)
               asLab == "LAB" \in (above.kw \cup cell.kw)
               b1 == BatchOfCombined(above, cell)
               b2 == IF DOMAIN b1 # {} THEN b1 ELSE parseBatchInfo(cell)
               b3 == IF DOMAIN b2 # {} THEN b2
                     ELSE AdjacentBatchInfo(sr, t - 2, t + 2, -1)
           IN  IF coded(t)
                 THEN [found |-> TRUE,
                       name |-> IF ThOf(above, cell) # NoCode
                                  THEN ThOf(above, cell) ELSE LabOf(above, cell),
                       type |-> IF asLab THEN "Practical" ELSE "Theory",
                       totalLectures |-> IF asLab THEN BatchGet(b3, division)
                                         ELSE TotalOf(above, cell),
                       batchInfo |-> IF asLab THEN b3 ELSE NoBatchInfo,
                       attendedCol |-> col,
                       percentageCol |-> percentageCol(grid.headers, col)]
                 ELSE [found |-> TRUE, name |-> cell.bare,
                       type |-> IF isLab(t) THEN "Practical" ELSE "Theory",
                       totalLectures |-> 0, batchInfo |-> NoBatchInfo,
                       attendedCol |-> col,
                       percentageCol |-> percentageCol(grid.headers, col)]

\* Lines 648-894 for one column: an 'attended' header that is not a '%' header
\* is classified by the first strategy that finds a subject.
FirstFound(byBand, byWindow, byFallback) ==
  IF byBand.found THEN byBand
  ELSE IF byWindow.found THEN byWindow
  ELSE byFallback

ClassifyColumn(grid, division, col) ==
  LET h == At(grid.headers, col)
  IN  IF ~("ATTENDED" \in h.kw /\ ~("%" \in h.kw)) THEN NotFound
      ELSE FirstFound(LabBandSubject(grid, division, col),
                      WindowSubject(grid, division, col),
                      FallbackSubject(grid, division, col))

\* subjects.push(...) of a column that declares a subject
Pushed(subject) == IF subject.found THEN << subject >> ELSE << >>

\* The list `subjects`, in column order.
RECURSIVE SubjectsFrom(_, _, _)
SubjectsFrom(grid, division, col) ==
  IF col >= Len(grid.headers) THEN << >>
  ELSE Pushed(ClassifyColumn(grid, division, col))
         \o SubjectsFrom(grid, division, col + 1)

subjects(sheetData, division) ==
  SubjectsFrom(Grid(sheetData), division, Max2(divCol(sheetData) + 1, 0))

\* Lines 1081-1090: the period of the sheet, from its first row ("" is null).
period(sheetData) ==
  LET row == RowAt(sheetData, 0)
      S   == {c \in 0..(Len(row) - 1) : At(row, c).per # ""}
  IN  IF S = {} THEN "" ELSE At(row, MinOf(S)).per

(***************************************************************************)
(* Subject resolver (lines 923-977).  Codes and names are sequences of     *)
(* characters so that includes() is a real substring test.                 *)
(***************************************************************************)
LowerCase ==
  << "a", "b", "c", "d", "e", "f", "g", "h", "i", "j", "k", "l", "m",
     "n", "o", "p", "q", "r", "s", "t", "u", "v", "w", "x", "y", "z" >>

UpperCase ==
  << "A", "B", "C", "D", "E", "F", "G", "H", "I", "J", "K", "L", "M",
     "N", "O", "P", "Q", "R", "S", "T", "U", "V", "W", "X", "Y", "Z" >>

UpperChar(ch) ==
  IF \E i \in 1..26 : LowerCase[i] = ch
    THEN UpperCase[CHOOSE i \in 1..26 : LowerCase[i] = ch]
    ELSE ch

toUpperCase(str) == [i \in 1..Len(str) |-> UpperChar(str[i])]

\* hay.includes(needle)
Includes(hay, needle) ==
  \E i \in 1..(Len(hay) - Len(needle) + 1) :
    SubSeq(hay, i, i + Len(needle) - 1) = needle

\* allDbSubjects.find(...): the first index of S, 0 when there is none
FirstWhere(S) == IF S = {} THEN 0 ELSE MinOf(S)

\* (As dbSubject, taking the first catalog subject that matches in any way.)
dbSubjectFirstOfAny(sheetSubject, catalog) ==
  LET name == toUpperCase(sheetSubject.name)
  IN  FirstWhere({i \in 1..Len(catalog) :
                    \/ toUpperCase(catalog[i].code) = name
                    \/ Includes(toUpperCase(catalog[i].name), name)
                    \/ Includes(name, toUpperCase(catalog[i].name))
                    \/ Includes(toUpperCase(catalog[i].code), name)
                    \/ Includes(name, toUpperCase(catalog[i].code))})

dbSubject(sheetSubject, allDbSubjects) ==
  LET name == toUpperCase(sheetSubject.name)
      byCode(s) == toUpperCase(s.code) = name
      byName(s) == \/ Includes(toUpperCase(s.name), name)
                   \/ Includes(name, toUpperCase(s.name))
      bySub(s)  == \/ Includes(toUpperCase(s.code), name)
                   \/ Includes(name, toUpperCase(s.code))
      i1 == FirstWhere({i \in 1..Len(allDbSubjects) : byCode(allDbSubjects[i])})
      i2 == FirstWhere({i \in 1..Len(allDbSubjects) : byName(allDbSubjects[i])})
      i3 == FirstWhere({i \in 1..Len(allDbSubjects) : bySub(allDbSubjects[i])})
  IN  IF i1 # 0 THEN i1 ELSE IF i2 # 0 THEN i2 ELSE i3

unmatchedSubjects(subs, allDbSubjects) ==
  SelectSeq(subs, LAMBDA s : dbSubject(s, allDbSubjects) = 0)

\* subjectMap[attendedCol]; a later sheet subject on the same column overwrites.
subjectMap(subs, allDbSubjects) ==
  LET cols == {subs[i].attendedCol : i \in {j \in 1..Len(subs) :
                                              dbSubject(subs[j], allDbSubjects) # 0}}
      last(c) == subs[MaxOf({j \in 1..Len(subs) :
                    subs[j].attendedCol = c /\ dbSubject(subs[j], allDbSubjects) # 0})]
  IN  [c \in cols |->
         [subjectId     |-> allDbSubjects[dbSubject(last(c), allDbSubjects)].id,
          type          |-> last(c).type,
          totalLectures |-> last(c).totalLectures,
          batchInfo     |-> last(c).batchInfo]]

(***************************************************************************)
(* Attendance upserter (lines 1010-1203).                                  *)
(* A stored Attendance document; period "" is null.  Documents are kept in *)
(* insertion order, the order in which findOne scans them.                 *)
(***************************************************************************)
\* parseFloat(row[col] || 0): '' is falsy and reads as 0
CellNumber(cell) == IF cell.empty THEN Int2Rat(0) ELSE cell.num

\* The query of lines 1097-1112 against one stored document.
MatchesQuery(doc, studentId, subjectId, type, per) ==
  /\ doc.studentId = studentId
  /\ doc.subjectId = subjectId
  /\ doc.type = type
  /\ doc.period = per

\* (As findOneAndUpdate, inserting without looking for a match.)
findOneAndInsert(store, doc) == Append(store, doc)

\* Attendance.findOneAndUpdate(query, {$set: ...}, {upsert: true}): the first
\* matching document is updated in place, or a new one is appended.
findOneAndUpdate(store, doc) ==
  LET S == {i \in 1..Len(store) :
              MatchesQuery(store[i], doc.studentId, doc.subjectId, doc.type, doc.period)}
  IN  IF S = {} THEN Append(store, doc)
      ELSE [store EXCEPT ![MinOf(S)] = doc]

\* (As totalClasses, without the sheet-declared total.)
totalClassesDerived(totalLectures, attendedValue, percentageValue) ==
  LET t1 == IF NumGt(percentageValue, Int2Rat(0))
              THEN MathRound(DivTimes100(attendedValue, percentageValue))
              ELSE MathRound(attendedValue)
  IN  IF t1 = 0 \/ NumLt(Int2Rat(t1), attendedValue)
        THEN Max2(MathRound(attendedValue), MathCeil(Times1_2(attendedValue)))
        ELSE t1

\* (As totalClasses, without the floor of lines 1072-1075.)
totalClassesUnfloored(totalLectures, attendedValue, percentageValue) ==
  IF totalLectures = 0
    THEN IF NumGt(percentageValue, Int2Rat(0))
           THEN MathRound(DivTimes100(attendedValue, percentageValue))
           ELSE MathRound(attendedValue)
    ELSE totalLectures

\* Lines 1062-1075: the total for one cell, before rounding.
totalClasses(totalLectures, attendedValue, percentageValue) ==
  LET t1 == IF totalLectures = 0
              THEN IF NumGt(percentageValue, Int2Rat(0))
                     THEN MathRound(DivTimes100(attendedValue, percentageValue))
                     ELSE MathRound(attendedValue)
              ELSE totalLectures
  IN  IF t1 = 0 \/ NumLt(Int2Rat(t1), attendedValue)
        THEN Max2(MathRound(attendedValue), MathCeil(Times1_2(attendedValue)))
        ELSE t1

\* Lines 1077-1079
finalPercentage(total, attendedValue, percentageValue) ==
  IF NumGt(percentageValue, Int2Rat(0)) THEN percentageValue
  ELSE IF total > 0 THEN Rat(attendedValue.n * 100, attendedValue.d * total)
  ELSE Int2Rat(0)

\* Lines 1158-1165
totalFromSheetHeader(info, totalLectures, student) ==
  IF info.type = "Practical" /\ BatchGet(info.batchInfo, student.batch) # 0
    THEN BatchGet(info.batchInfo, student.batch)
  ELSE IF totalLectures > 0 THEN totalLectures
  ELSE 0

KeyIndex(list, key) ==
  LET S == {i \in 1..Len(list) : list[i].key = key}
  IN  IF S = {} THEN 0 ELSE MinOf(S)

\* Lines 1169-1187: allocationUpdates[allocationKey], in insertion order
TrackUpdate(allocationUpdates, key, total) ==
  IF total = 0 THEN allocationUpdates
  ELSE IF KeyIndex(allocationUpdates, key) = 0
    THEN Append(allocationUpdates, [key |-> key, total |-> total])
  ELSE [allocationUpdates EXCEPT ![KeyIndex(allocationUpdates, key)].total = total]

\* (As AddToSet, with $push in place of $addToSet.)
PushId(ids, id) == Append(ids, id)

\* Set.add / $addToSet of one id on an array without duplicates
AddToSet(ids, id) ==
  IF \E i \in 1..Len(ids) : ids[i] = id THEN ids ELSE Append(ids, id)

\* {$addToSet: {students: {$each: ids}}}
RECURSIVE AddEachToSet(_, _)
AddEachToSet(arr, ids) ==
  IF ids = << >> THEN arr ELSE AddEachToSet(AddToSet(arr, Head(ids)), Tail(ids))

\* Lines 1192-1201: allocationStudents[allocationKey].students.add(student._id)
TrackStudent(allocationStudents, key, studentId) ==
  IF KeyIndex(allocationStudents, key) = 0
    THEN Append(allocationStudents, [key |-> key, students |-> << studentId >>])
  ELSE [allocationStudents EXCEPT
          ![KeyIndex(allocationStudents, key)].students = AddToSet(@, studentId)]

\* Lines 1032-1202 for one student row and one resolved column.  acc.totals
\* is subjectInfo.totalLectures per column: line 1043 assigns to the shared
\* subjectInfo object, so the value stays for the rows that follow.
ProcessCell(map, division, per, student, row, col, acc) ==
  LET info            == map[col]
      attendedValue   == CellNumber(At(row, col))
      percentageValue == CellNumber(At(row, col + 1))
      batchTotal      == BatchGet(info.batchInfo, student.batch)
      lectures        == IF info.type = "Practical" /\ batchTotal # 0
                           THEN batchTotal ELSE acc.totals[col]
      total           == totalClasses(lectures, attendedValue, percentageValue)
      doc == [studentId      |-> student.id,
              subjectId      |-> info.subjectId,
              type           |-> info.type,
              period         |-> per,
              totalConducted |-> total,
              totalAttended  |-> MathRound(attendedValue),
              percentage     |-> finalPercentage(total, attendedValue, percentageValue),
              division       |-> division,
              batch          |-> IF info.type = "Practical" THEN student.batch ELSE ""]
      batchKey == IF info.type = "Practical" THEN student.batch ELSE ""
      key      == << info.subjectId, info.type, division, batchKey >>
  IN  IF IsNaN(attendedValue) \/ NumLt(attendedValue, Int2Rat(0)) THEN acc
      ELSE [acc EXCEPT
              !.totals = [@ EXCEPT ![col] = lectures],
              !.store = findOneAndUpdate(@, doc),
              !.recordsCreated = @ + 1,
              !.written = Append(@, doc),
              !.allocationUpdates =
                 TrackUpdate(@, key, totalFromSheetHeader(info, lectures, student)),
              !.allocationStudents = TrackStudent(@, key, student.id)]

\* Object.entries(subjectMap): integer keys, in ascending order
RECURSIVE ProcessCols(_, _, _, _, _, _, _)
ProcessCols(map, division, per, student, row, cols, acc) ==
  IF cols = {} THEN acc
  ELSE LET col == MinOf(cols)
       IN  ProcessCols(map, division, per, student, row, cols \ {col},
                       ProcessCell(map, division, per, student, row, col, acc))

\* (As ProcessRow, passing over an unmatched row without recording it.)
ProcessRowSilent(map, division, per, divStudents, uidC, row, rowIndex, acc) ==
  LET uid   == At(row, uidC).txt
      found == {s \in divStudents : s.uid = uid}
  IN  IF Len(row) = 0 \/ uid = "" \/ found = {} THEN acc
      ELSE ProcessCols(map, division, per, CHOOSE s \in found : TRUE, row, DOMAIN map,
                       [acc EXCEPT !.studentsFound = @ + 1])

\* Lines 1010-1030: one data row
ProcessRow(map, division, per, divStudents, uidC, row, rowIndex, acc) ==
  LET uid   == At(row, uidC).txt
      found == {s \in divStudents : s.uid = uid}
  IN  IF Len(row) = 0 \/ uid = "" THEN acc
      ELSE IF found = {}
        THEN [acc EXCEPT !.studentsNotFound = @ + 1,
                         !.errors = Append(@, [row |-> rowIndex + 1, studentId |-> uid])]
      ELSE ProcessCols(map, division, per, CHOOSE s \in found : TRUE, row, DOMAIN map,
                       [acc EXCEPT !.studentsFound = @ + 1])

RECURSIVE ProcessRows(_, _, _, _, _, _, _, _)
ProcessRows(sheetData, map, division, per, divStudents, uidC, rowIndex, acc) ==
  IF rowIndex >= Len(sheetData) THEN acc
  ELSE ProcessRows(sheetData, map, division, per, divStudents, uidC, rowIndex + 1,
                   ProcessRow(map, division, per, divStudents, uidC,
                              RowAt(sheetData, rowIndex), rowIndex, acc))

(***************************************************************************)
(* Allocation reconciler (lines 1205-1260).  An allocation's batch is ""   *)
(* when null.                                                              *)
(***************************************************************************)
\* allocationQuery / query: batch is part of it only for a Practical key
\* whose batch is truthy
AllocationMatches(a, key) ==
  /\ a.subjectId = key[1]
  /\ a.type = key[2]
  /\ a.division = key[3]
  /\ (key[2] = "Practical" /\ key[4] # "") => a.batch = key[4]

FirstAllocation(allocs, key) ==
  LET S == {i \in 1..Len(allocs) : AllocationMatches(allocs[i], key)}
  IN  IF S = {} THEN 0 ELSE MinOf(S)

\* Lines 1208-1241: Allocation.findOneAndUpdate(query, {$set: totals})
RECURSIVE UpdateTotals(_, _, _)
UpdateTotals(allocs, allocationUpdates, k) ==
  IF k > Len(allocationUpdates) THEN allocs
  ELSE LET u == allocationUpdates[k]
           i == FirstAllocation(allocs, u.key)
       IN  UpdateTotals(IF i = 0 THEN allocs
                        ELSE [allocs EXCEPT ![i].totalPlanned = u.total,
                                            ![i].totalConducted = u.total],
                        allocationUpdates, k + 1)

allocationsUpdated(allocs, allocationUpdates) ==
  Cardinality({k \in 1..Len(allocationUpdates) :
                 FirstAllocation(allocs, allocationUpdates[k].key) # 0})

\* Lines 1243-1260: Allocation.updateOne(query, {$addToSet: {students: {$each: ids}}})
RECURSIVE UpdateStudents(_, _, _)
UpdateStudents(allocs, allocationStudents, k) ==
  IF k > Len(allocationStudents) THEN allocs
  ELSE LET u == allocationStudents[k]
           i == FirstAllocation(allocs, u.key)
       IN  UpdateStudents(IF i = 0 THEN allocs
                          ELSE [allocs EXCEPT ![i].students = AddEachToSet(@, u.students)],
                          allocationStudents, k + 1)

(***************************************************************************)
(* The data the model runs on.                                             *)
(***************************************************************************)
SE == << "S", "E" >>

CNS == << "C", "N", "S" >>

SoftwareEngineering == << "S", "o", "f", "t", "w", "a", "r", "e" >>

Networks == << "N", "e", "t", "w", "o", "r", "k", "s" >>

DC == << "D", "C" >>

AISC == << "A", "I", "S", "C" >>

TOC == << "T", "O", "C" >>

Distributed == << "D", "i", "s", "t", "r", "i", "b", "u", "t", "e", "d" >>

Intelligence == << "I", "n", "t", "e", "l", "l", "i", "g", "e", "n", "c", "e" >>

Automata == << "A", "u", "t", "o", "m", "a", "t", "a" >>

\* Subject.find(): the catalog, in stored order; no modelled request writes it.
\* It holds the five subjects that the sample sheet declares.
allDbSubjects ==
  << [id |-> "subSE",   code |-> SE,   name |-> SoftwareEngineering],
     [id |-> "subCNS",  code |-> CNS,  name |-> Networks],
     [id |-> "subDC",   code |-> DC,   name |-> Distributed],
     [id |-> "subAISC", code |-> AISC, name |-> Intelligence],
     [id |-> "subTOC",  code |-> TOC,  name |-> Automata] >>

\* Student documents: U1 and U2 sit in batches A and B of division A, U3 is in
\* division A without a batch, U4 belongs to division B.
Student(id, uid, division, batch) ==
  [id |-> id, uid |-> uid, division |-> division, batch |-> batch]

AllStudents ==
  { Student("s1", "U1", "A", "A"), Student("s2", "U2", "A", "B"),
    Student("s3", "U3", "A", ""),  Student("s4", "U4", "B", "A") }

Aug25ToOct25 == "Aug-25 to Oct-25"

HRoll == Kw({"ROLL"})

HUid == Kw({"UID"})

HName == Kw({"NAME", "STUDENT"})

HBatch == Kw({"BATCH"})

HAttended == Kw({"ATTENDED"})

HPercent == Kw({"ATTENDED", "%"})

\* A data row: roll, UID, name, batch, then the attendance cells.
DataRow(roll, uid, batch, cells) ==
  << NumCell(roll, 1), Txt(uid), Txt("name"), Txt(batch) >> \o cells

\* The sheet of the end-to-end example: the subject row 'SE(Th) Total=32', the
\* header row and one row for U1 with 28 lectures attended; no title row.
SheetE2E ==
  << << Blank, Blank, Blank, Blank, ThCell(SE, 32) >>,
     << HRoll, HUid, HName, HBatch, HAttended >>,
     DataRow(1, "U1", "A", << NumCell(28, 1) >>) >>

\* A sheet of the documented shape for the period Aug-25 to Oct-25: one Theory
\* subject with a Total and one Lab subject with totals for batches A and B;
\* U3 has no batch, U4 is not a student of division A.
SheetTerm ==
  << << Blank, Txt("Month & Year"), Blank, Blank, PeriodCell(Aug25ToOct25) >>,
     << >>,
     << Blank, Blank, Blank, Blank, Kw({"THEORY"}), Blank, Kw({"LAB"}), Blank >>,
     << Blank, Blank, Blank, Blank, ThCell(SE, 32), Blank,
        LabCell(SE, [b \in {"A", "B"} |-> IF b = "A" THEN 10 ELSE 11]), Blank >>,
     << HRoll, HUid, HName, HBatch, HAttended, HPercent, HAttended, HPercent >>,
     DataRow(1, "U1", "A", << NumCell(28, 1), NumCell(88, 1), NumCell(9, 1), NumCell(90, 1) >>),
     DataRow(2, "U2", "B", << NumCell(16, 1), NumCell(50, 1), NumCell(11, 1), NumCell(100, 1) >>),
     DataRow(3, "U3", "",  << NumCell(24, 1), NumCell(75, 1), NumCell(6, 1), Blank >>),
     DataRow(4, "U4", "A", << NumCell(30, 1), NumCell(94, 1), NumCell(10, 1), NumCell(100, 1) >>) >>

\* An undated sheet: Theory without a Total figure, Lab with a total for
\* batch B only; U2 (batch B) comes before U1 (batch A).
SheetUndated ==
  << << Blank, Txt("Attendance"), Blank, Blank, Blank >>,
     << Blank, Blank, Blank, Blank, Kw({"THEORY"}), Blank, Kw({"LAB"}), Blank >>,
     << Blank, Blank, Blank, Blank, ThCell(SE, 0), Blank,
        LabCell(SE, [b \in {"B"} |-> 9]), Blank >>,
     << HRoll, HUid, HName, HBatch, HAttended, HPercent, HAttended, HPercent >>,
     DataRow(1, "U2", "B", << NumCell(13, 1), NumCell(65, 1), NumCell(9, 1), Blank >>),
     DataRow(2, "U1", "A", << NumCell(20, 1), NumCell(50, 1), NumCell(30, 1), Blank >>) >>

\* A sheet without a header row.
SheetNoHeader ==
  << << Blank, Txt("Attendance") >>,
     << Txt("U1"), NumCell(28, 1) >> >>

SheetNames == {"E2E", "Term", "Undated", "NoHeader"}

SheetData(name) ==
  CASE name = "E2E" -> SheetE2E
    [] name = "Term" -> SheetTerm
    [] name = "Undated" -> SheetUndated
    [] name = "NoHeader" -> SheetNoHeader

(***************************************************************************)
(* State.                                                                  *)
(*   students     the Student collection                                   *)
(*   attendance   the Attendance collection, in insertion order            *)
(*   allocations  the Allocation collection, in insertion order            *)
(*   resp         the response to the last request, with the sheet and     *)
(*                division it was for                                      *)
(*   prev         the sheet and division of the request before it, when    *)
(*                both were successful uploads (history, for the           *)
(*                properties about two uploads in succession)              *)
(*   isRunning    the sync worker's module-level flag                      *)
(*   calls        the pending invocations of syncAllocationStudents        *)
(*   checks       the defaulter checks handed to setImmediate that have    *)
(*                not finished, as the set of their positions              *)
(***************************************************************************)
VARIABLES students, attendance, allocations, resp, prev, isRunning, calls, checks

vars == << students, attendance, allocations, resp, prev, isRunning, calls, checks >>

NoResponse == [op |-> "none"]

NoUpload == [sheet |-> "", division |-> ""]

\* An invocation of syncAllocationStudents: its position, the allocations it
\* loaded, the index of the one it is at, the ids it is about to save and
\* results.errors.  linked is history: the (student, allocation) links that
\* POST /upload-students made while the invocation was in progress.
IdleCall ==
  [pc |-> "idle", docs |-> << >>, idx |-> 0, studentIds |-> << >>,
   errors |-> << >>, linked |-> {}]

Calls == 1..MaxSyncCalls

\* Lines 1266-1280: a callback handed to setImmediate that has not started
Scheduled == [pc |-> "scheduled", defaulters |-> << >>]

(***************************************************************************)
(* POST /upload-division-sheet (lines 437-511) and processDivisionSheet    *)
(* (lines 575-1302), as one step.                                          *)
(***************************************************************************)
Divisions == {"A", "B", "C", "D"}

\* division.toUpperCase() of the form field
DivisionUpper(division) ==
  CASE division = "a" -> "A" [] division = "b" -> "B" [] OTHER -> division

EmptyAcc(map, store) ==
  [totals             |-> [c \in DOMAIN map |-> map[c].totalLectures],
   store              |-> store,
   recordsCreated     |-> 0,
   written            |-> << >>,
   allocationUpdates  |-> << >>,
   allocationStudents |-> << >>,
   errors             |-> << >>,
   studentsFound      |-> 0,
   studentsNotFound   |-> 0]

Failure(status, error, hadFile, fileOnDisk) ==
  [op |-> "upload", status |-> status, error |-> error,
   hadFile |-> hadFile, fileOnDisk |-> fileOnDisk, sheet |-> "", division |-> ""]

\* What processDivisionSheet derives from the sheet and the catalog alone
\* (lines 577-977), for every sheet and division of the model.
Resolved(sheetData, subs) ==
  [headerRowIndex |-> headerRowIndex(sheetData),
   rollCol        |-> rollCol(sheetData),
   uidCol         |-> uidCol(sheetData),
   nameCol        |-> nameCol(sheetData),
   subjects       |-> subs,
   unmatched      |-> unmatchedSubjects(subs, allDbSubjects),
   subjectMap     |-> subjectMap(subs, allDbSubjects),
   period         |-> period(sheetData)]

Layout(sheetData, division) == Resolved(sheetData, subjects(sheetData, division))

LayoutOf == [n \in SheetNames |-> [d \in Divisions |-> Layout(SheetData(n), d)]]

\* The rows of the sheet run through the upserter.
ProcessSheet(sheetData, lay, division, divStudents, store) ==
  ProcessRows(sheetData, lay.subjectMap, division, lay.period, divStudents,
              lay.uidCol, lay.headerRowIndex + 1, EmptyAcc(lay.subjectMap, store))

Processed(sheet, division, studs, store) ==
  ProcessSheet(SheetData(sheet), LayoutOf[sheet][division], division,
               {s \in studs : s.division = division}, store)

\* (As FatalOf, turning the sheet down when any of its subjects is unmatched.)
FatalOfStrict(lay, divStudents, throws) ==
  IF lay.headerRowIndex = -1 THEN "HeaderNotFound"
  ELSE IF lay.rollCol = -1 \/ lay.uidCol = -1 \/ lay.nameCol = -1
    THEN "MissingColumns"
  ELSE IF Len(lay.subjects) = 0 THEN "NoSubjectsDetected"
  ELSE IF throws = "db" THEN "Exception"
  ELSE IF Len(lay.unmatched) > 0 THEN "NoSubjectMatch"
  ELSE IF divStudents = {} THEN "NoStudentsInDivision"
  ELSE IF DOMAIN lay.subjectMap = {} THEN "NoSubjectMatch"
  ELSE ""

\* processDivisionSheet up to its first write: the fatal error it ends with,
\* "" when it goes on to the rows.  throws = "db" is Subject.find() rejecting.
FatalOf(lay, divStudents, throws) ==
  IF lay.headerRowIndex = -1 THEN "HeaderNotFound"
  ELSE IF lay.rollCol = -1 \/ lay.uidCol = -1 \/ lay.nameCol = -1
    THEN "MissingColumns"
  ELSE IF Len(lay.subjects) = 0 THEN "NoSubjectsDetected"
  ELSE IF throws = "db" THEN "Exception"
  ELSE IF Len(lay.unmatched) > 0 /\ DOMAIN lay.subjectMap = {}
    THEN "NoSubjectMatch"
  ELSE IF divStudents = {} THEN "NoStudentsInDivision"
  ELSE IF DOMAIN lay.subjectMap = {} THEN "NoSubjectMatch"
  ELSE ""

FatalError(sheet, division, studs, throws) ==
  FatalOf(LayoutOf[sheet][division], {s \in studs : s.division = division}, throws)

\* Lines 969-977: the response lists the sheet's subjects and the catalog's
NoMatch(subs, allSubjects) ==
  [op |-> "upload", status |-> 400, error |-> "NoSubjectMatch",
   hadFile |-> TRUE, fileOnDisk |-> FALSE, sheet |-> "", division |-> "",
   sheetSubjects |-> [i \in 1..Len(subs) |-> subs[i].name],
   databaseSubjects |->
     [i \in 1..Len(allSubjects) |->
        [code |-> allSubjects[i].code, name |-> allSubjects[i].name]]]

\* (As Outcome, with an unmatched student ending the upload after the rows
\* before it have been written.)
OutcomeRowFatal(division, div, hasFile, ext, throws, sheet, lay, fatal, acc) ==
  LET same(r) == [resp |-> r, attendance |-> attendance, allocations |-> allocations]
  IN  IF division = "" \/ div \notin Divisions
        THEN same(Failure(400, "InvalidDivision", hasFile, hasFile))
      ELSE IF ~hasFile THEN same(Failure(400, "NoFile", FALSE, FALSE))
      ELSE IF ext \notin {"xlsx", "xls", "csv"}
        THEN same(Failure(400, "UnsupportedFormat", TRUE, FALSE))
      ELSE IF throws = "read" THEN same(Failure(500, "Exception", TRUE, FALSE))
      ELSE IF fatal = "Exception" THEN same(Failure(500, fatal, TRUE, FALSE))
      ELSE IF fatal = "NoSubjectMatch" /\ Len(lay.unmatched) > 0
        THEN same(NoMatch(lay.subjects, allDbSubjects))
      ELSE IF fatal # "" THEN same(Failure(400, fatal, TRUE, FALSE))
      ELSE IF acc.studentsNotFound > 0
        THEN [resp |-> Failure(400, "StudentNotFound", TRUE, FALSE),
              attendance |-> acc.store, allocations |-> allocations]
      ELSE [resp |-> [op |-> "upload", status |-> 200, error |-> "",
                      hadFile |-> TRUE, fileOnDisk |-> FALSE,
                      sheet |-> sheet, division |-> div,
                      recordsCreated |-> acc.recordsCreated,
                      studentsFound |-> acc.studentsFound,
                      studentsNotFound |-> acc.studentsNotFound,
                      allocationsUpdated |->
                        allocationsUpdated(allocations, acc.allocationUpdates),
                      errors |-> SubSeq(acc.errors, 1, Min2(10, Len(acc.errors))),
                      errorCount |-> Len(acc.errors)],
            attendance |-> acc.store,
            allocations |->
              UpdateStudents(UpdateTotals(allocations, acc.allocationUpdates, 1),
                             acc.allocationStudents, 1)]

\* The response of the route and the collections after it.  Every branch of
\* processDivisionSheet unlinks the file before it responds; the route's own
\* validation of the division (lines 442-447) returns without unlinking.
Outcome(division, div, hasFile, ext, throws, sheet, lay, fatal, acc) ==
  LET same(r) == [resp |-> r, attendance |-> attendance, allocations |-> allocations]
  IN  IF division = "" \/ div \notin Divisions
        THEN same(Failure(400, "InvalidDivision", hasFile, hasFile))
      ELSE IF ~hasFile THEN same(Failure(400, "NoFile", FALSE, FALSE))
      ELSE IF ext \notin {"xlsx", "xls", "csv"}
        THEN same(Failure(400, "UnsupportedFormat", TRUE, FALSE))
      ELSE IF throws = "read" THEN same(Failure(500, "Exception", TRUE, FALSE))
      ELSE IF fatal = "Exception" THEN same(Failure(500, fatal, TRUE, FALSE))
      ELSE IF fatal = "NoSubjectMatch" /\ Len(lay.unmatched) > 0
        THEN same(NoMatch(lay.subjects, allDbSubjects))
      ELSE IF fatal # "" THEN same(Failure(400, fatal, TRUE, FALSE))
      ELSE [resp |-> [op |-> "upload", status |-> 200, error |-> "",
                      hadFile |-> TRUE, fileOnDisk |-> FALSE,
                      sheet |-> sheet, division |-> div,
                      recordsCreated |-> acc.recordsCreated,
                      studentsFound |-> acc.studentsFound,
                      studentsNotFound |-> acc.studentsNotFound,
                      allocationsUpdated |->
                        allocationsUpdated(allocations, acc.allocationUpdates),
                      errors |-> SubSeq(acc.errors, 1, Min2(10, Len(acc.errors))),
                      errorCount |-> Len(acc.errors)],
            attendance |-> acc.store,
            allocations |->
              UpdateStudents(UpdateTotals(allocations, acc.allocationUpdates, 1),
                             acc.allocationStudents, 1)]

UploadOutcome(division, hasFile, ext, throws, sheet) ==
  Outcome(division, DivisionUpper(division), hasFile, ext, throws, sheet,
          LayoutOf[sheet][DivisionUpper(division)],
          FatalError(sheet, DivisionUpper(division), students, throws),
          Processed(sheet, DivisionUpper(division), students, attendance))

\* The response is sent and the writes are in the collections
Respond(out) ==
  /\ resp' = out.resp
  /\ attendance' = out.attendance
  /\ allocations' = out.allocations
  /\ prev' = IF out.resp.status = 200 /\ resp.op = "upload" /\ resp.status = 200
               THEN [sheet |-> resp.sheet, division |-> resp.division]
             ELSE NoUpload
  /\ checks' = IF out.resp.status = 200 THEN checks \cup {Scheduled} ELSE checks
  /\ UNCHANGED << students, isRunning, calls >>

UploadDivisionSheet(division, hasFile, ext, throws, sheet) ==
  Respond(UploadOutcome(division, hasFile, ext, throws, sheet))

(***************************************************************************)
(* POST /mark, the in-request branch for up to 10 records (lines 78-121):  *)
(* every record is saved as a new Attendance document.  A record of the    *)
(* request names a student, a subject and a type; the schema's defaults    *)
(* fill the rest (period null, division null, totals 0).                   *)
(***************************************************************************)
MarkedDoc(record) ==
  [studentId      |-> record.studentId,
   subjectId      |-> record.subjectId,
   type           |-> record.type,
   period         |-> "",
   totalConducted |-> record.totalConducted,
   totalAttended  |-> record.totalAttended,
   percentage     |-> record.percentage,
   division       |-> "",
   batch          |-> ""]

\* new Attendance({...record, recordedBy}).save()
SaveAttendance(store, record) == Append(store, MarkedDoc(record))

\* A record of the request body; the schema defaults stand for absent fields
Record(studentId, totalConducted, totalAttended, percentage) ==
  [studentId |-> studentId, subjectId |-> "subSE", type |-> "Theory",
   totalConducted |-> totalConducted, totalAttended |-> totalAttended,
   percentage |-> percentage]

MarkRecords == { Record("s1", 0, 0, Int2Rat(0)) }

Marked == {i \in 1..Len(attendance) : attendance[i].division = ""}

MarkAttendance(record) ==
  /\ attendance' = SaveAttendance(attendance, record)
  /\ resp' = [op |-> "mark", status |-> 200]
  /\ prev' = NoUpload
  /\ UNCHANGED << students, allocations, isRunning, calls, checks >>

(***************************************************************************)
(* POST /allocations (part_000, lines 437-525): the duplicate check keeps  *)
(* one allocation per (subject, type, division[, batch]).                  *)
(***************************************************************************)
NewAllocations ==
  { [subjectId |-> "subSE", type |-> "Theory", division |-> "A", batch |-> "",
     totalPlanned |-> 7, totalConducted |-> 5, students |-> << >>, teacherId |-> "t1"],
    [subjectId |-> "subSE", type |-> "Practical", division |-> "A", batch |-> "A",
     totalPlanned |-> 7, totalConducted |-> 5, students |-> << >>, teacherId |-> "t1"] }

allocationExists(allocs, a) ==
  \E i \in 1..Len(allocs) :
     /\ allocs[i].subjectId = a.subjectId
     /\ allocs[i].type = a.type
     /\ allocs[i].division = a.division
     /\ a.type = "Practical" => allocs[i].batch = a.batch

CreateAllocation(a) ==
  /\ ~allocationExists(allocations, a)
  /\ allocations' = Append(allocations, a)
  /\ resp' = [op |-> "allocation", status |-> 201]
  /\ prev' = NoUpload
  /\ UNCHANGED << students, attendance, isRunning, calls, checks >>

Init ==
  /\ students = AllStudents
  /\ attendance = << >>
  /\ allocations = << >>
  /\ resp = NoResponse
  /\ prev = NoUpload
  /\ isRunning = FALSE
  /\ calls = [c \in Calls |-> IdleCall]
  /\ checks = {}

\* The requests of the model: a sheet for division A (or 'a'), or for a
\* division without students; the requests the route itself turns down; a
\* file that cannot be read and a catalog that cannot be loaded.
Request(division, hasFile, ext, throws, sheet) ==
  [division |-> division, hasFile |-> hasFile, ext |-> ext, throws |-> throws,
   sheet |-> sheet]

UploadRequests ==
  {Request("A", TRUE, "xlsx", "none", n) : n \in SheetNames}
    \cup {Request("a", TRUE, "xlsx", "none", "E2E"),
          Request("C", TRUE, "xlsx", "none", "Term")}
    \cup {Request(d, TRUE, "xlsx", "none", "Term") : d \in {"E", ""}}
    \cup {Request("A", f, "pdf", "none", "E2E") : f \in BOOLEAN}
    \cup {Request("A", TRUE, "xlsx", t, "Term") : t \in {"read", "db"}}

Upload ==
  \E r \in UploadRequests :
     UploadDivisionSheet(r.division, r.hasFile, r.ext, r.throws, r.sheet)

Mark ==
  /\ Cardinality(Marked) < MaxMarks
  /\ \E record \in MarkRecords : MarkAttendance(record)

Allocate == \E a \in NewAllocations : CreateAllocation(a)

Next == Upload \/ Mark \/ Allocate

Spec == Init /\ [][Next]_vars

(***************************************************************************)
(* The periodic allocation sync (workers/allocationSyncWorker.js).  One    *)
(* invocation of syncAllocationStudents is a call slot; it runs up to its  *)
(* next await in one step, so invocations interleave at the awaits:        *)
(*   idle -> find -> loop <-> save -> done | failed,   idle -> skipped     *)
(***************************************************************************)
InProgress == {"find", "loop", "save"}

Running(cs) == {c \in Calls : cs[c].pc \in InProgress}

\* The students collection in insertion order
StudentOrder == << "s1", "s2", "s3", "s4", "s5" >>

NewStudent == Student("s5", "U5", "A", "A")

\* POST /students: the student is saved unless the id is taken
CreateStudent ==
  /\ \A st \in students : st.id # NewStudent.id
  /\ students' = students \cup {NewStudent}
  /\ UNCHANGED << attendance, allocations, resp, prev, isRunning, calls, checks >>

\* Lines 605-620 of part_000: the allocations that POST /upload-students links
\* a new student to
LinksTo(allocation, st) ==
  /\ allocation.division = st.division
  /\ \/ allocation.type = "Theory"
     \/ allocation.type = "Practical" /\ st.batch # "" /\ allocation.batch = st.batch

\* POST /upload-students with a file of one row (part_000, lines 528-646): a
\* student whose UID is taken is passed over; the student is created and
\* added to the Theory allocations of the division and, with a batch, to the
\* Practical allocations of the division and batch.
UploadStudents ==
  /\ \A st \in students : st.uid # NewStudent.uid
  /\ students' = students \cup {NewStudent}
  /\ allocations' =
       [i \in 1..Len(allocations) |->
          IF LinksTo(allocations[i], NewStudent)
            THEN [allocations[i] EXCEPT !.students = AddToSet(@, NewStudent.id)]
            ELSE allocations[i]]
  /\ calls' =
       [c \in Calls |->
          IF calls[c].pc \in InProgress
            THEN [calls[c] EXCEPT
                    !.linked = @ \cup {<< NewStudent.id, i >> :
                                         i \in {j \in 1..Len(allocations) :
                                                  LinksTo(allocations[j], NewStudent)}}]
            ELSE calls[c]]
  /\ UNCHANGED << attendance, resp, prev, isRunning, checks >>

\* Lines 40-68: the student query of an allocation, or none
HasQuery(allocation) ==
  IF allocation.type = "Theory" THEN allocation.division # ""
  ELSE IF allocation.type = "Practical"
         THEN allocation.division # "" /\ allocation.batch # ""
         ELSE FALSE

\* (As matchingStudents, with the division as the only criterion.)
matchingStudentsOfDivision(studs, allocation) ==
  SelectSeq(StudentOrder,
            LAMBDA id : \E st \in studs : st.id = id /\ st.division = allocation.division)

\* Student.find(studentQuery).select('_id'), mapped to the ids
matchingStudents(studs, allocation) ==
  LET ids == {st.id : st \in {x \in studs :
                 /\ x.division = allocation.division
                 /\ allocation.type = "Practical" => x.batch = allocation.batch}}
  IN  SelectSeq(StudentOrder, LAMBDA id : id \in ids)

CountOf(ids, id) == Cardinality({i \in 1..Len(ids) : ids[i] = id})

\* Lines 75-78: the sorted id lists differ
needsUpdate(currentStudentIds, newStudentIds) ==
  \E id \in {currentStudentIds[i] : i \in 1..Len(currentStudentIds)}
            \cup {newStudentIds[i] : i \in 1..Len(newStudentIds)} :
     CountOf(currentStudentIds, id) # CountOf(newStudentIds, id)

\* (As SyncInvoke, without the test of the flag.)
SyncInvokeUnguarded(c) ==
  /\ calls[c].pc = "idle"
  /\ isRunning' = TRUE
  /\ calls' = [calls EXCEPT ![c].pc = "find"]
  /\ UNCHANGED << students, attendance, allocations, resp, prev, checks >>

\* Lines 16-35: the flag is tested and set before the first await
SyncInvoke(c) ==
  /\ calls[c].pc = "idle"
  /\ IF isRunning
       THEN /\ calls' = [calls EXCEPT ![c].pc = "skipped"]
            /\ UNCHANGED isRunning
       ELSE /\ isRunning' = TRUE
            /\ calls' = [calls EXCEPT ![c].pc = "find"]
  /\ UNCHANGED << students, attendance, allocations, resp, prev, checks >>

\* (As SyncFind, with a rejection that leaves the flag set.)
SyncFindWithoutFinally(c) ==
  /\ calls[c].pc = "find"
  /\ \E ok \in BOOLEAN :
       IF ok
         THEN calls' = [calls EXCEPT ![c].pc = "loop", ![c].docs = allocations,
                                     ![c].idx = 1]
         ELSE calls' = [calls EXCEPT ![c].pc = "failed"]
  /\ UNCHANGED << students, attendance, allocations, resp, prev, isRunning, checks >>

\* Line 35 resolves: the allocations are loaded; or it rejects, and the
\* finally block (lines 111-116) resets the flag
SyncFind(c) ==
  /\ calls[c].pc = "find"
  /\ \E ok \in BOOLEAN :
       IF ok
         THEN /\ calls' = [calls EXCEPT ![c].pc = "loop", ![c].docs = allocations,
                                          ![c].idx = 1]
              /\ UNCHANGED isRunning
         ELSE /\ calls' = [calls EXCEPT ![c].pc = "failed"]
              /\ isRunning' = FALSE
  /\ UNCHANGED << students, attendance, allocations, resp, prev, checks >>

\* results.errors.push({allocationId, error})
SyncError(idx, error) == [idx |-> idx, error |-> error]

\* Lines 47-51 and 59-63
MissingError(allocation) ==
  IF allocation.type = "Theory" THEN "Theory allocation missing division"
  ELSE "Practical allocation missing division or batch"

\* Lines 38-83: the next loaded allocation, up to the await of its save.  An
\* allocation without a query is reported and skipped; a rejected
\* Student.find is caught at line 91 and reported.
SyncLoop(c) ==
  /\ calls[c].pc = "loop"
  /\ calls[c].idx <= Len(calls[c].docs)
  /\ LET allocation == calls[c].docs[calls[c].idx]
         studentIds == matchingStudents(students, allocation)
     IN  IF ~HasQuery(allocation)
           THEN calls' = [calls EXCEPT
                            ![c].idx = @ + 1,
                            ![c].errors =
                               Append(@, SyncError(calls[c].idx, MissingError(allocation)))]
           ELSE \E ok \in BOOLEAN :
                  IF ~ok
                    THEN calls' = [calls EXCEPT
                                     ![c].idx = @ + 1,
                                     ![c].errors =
                                        Append(@, SyncError(calls[c].idx, "rejected"))]
                    ELSE IF needsUpdate(allocation.students, studentIds)
                           THEN calls' = [calls EXCEPT ![c].pc = "save",
                                                       ![c].studentIds = studentIds]
                           ELSE calls' = [calls EXCEPT ![c].idx = @ + 1]
  /\ UNCHANGED << students, attendance, allocations, resp, prev, isRunning, checks >>

\* Line 83 resolves: the document's students are replaced; or it rejects,
\* which line 91 catches and reports
SyncSave(c) ==
  /\ calls[c].pc = "save"
  /\ \E ok \in BOOLEAN :
       IF ok
         THEN /\ allocations' = [allocations EXCEPT ![calls[c].idx].students =
                                                      calls[c].studentIds]
              /\ calls' = [calls EXCEPT ![c].pc = "loop", ![c].idx = @ + 1,
                                        ![c].studentIds = << >>]
         ELSE /\ allocations' = allocations
              /\ calls' = [calls EXCEPT
                             ![c].pc = "loop", ![c].idx = @ + 1,
                             ![c].studentIds = << >>,
                             ![c].errors = Append(@, SyncError(calls[c].idx, "rejected"))]
  /\ UNCHANGED << students, attendance, resp, prev, isRunning, checks >>

\* Lines 100-116: the loop is over, the results are returned and the finally
\* block resets the flag
SyncReturn(c) ==
  /\ calls[c].pc = "loop"
  /\ calls[c].idx > Len(calls[c].docs)
  /\ calls' = [calls EXCEPT ![c].pc = "done"]
  /\ isRunning' = FALSE
  /\ UNCHANGED << students, attendance, allocations, resp, prev, checks >>

\* startSyncWorker's initial run and timer ticks, and runSyncOnce
Sync ==
  \E c \in Calls :
     \/ SyncInvoke(c)
     \/ SyncFind(c)
     \/ SyncLoop(c)
     \/ SyncSave(c)
     \/ SyncReturn(c)

NextSync == Sync \/ Allocate \/ CreateStudent \/ UploadStudents

SpecSync == Init /\ [][NextSync]_vars

(***************************************************************************)
(* GET /defaulters/report (routes/attendance.js, lines 1382-1474), for an  *)
(* admin: every student's summaries are aggregated and the student is put  *)
(* in a band by the aggregate percentage.                                  *)
(***************************************************************************)
\* Lines 1419-1427: total and present
RECURSIVE SumConducted(_)
SumConducted(records) ==
  IF records = << >> THEN 0
  ELSE (Head(records).totalConducted) + SumConducted(Tail(records))

RECURSIVE SumAttended(_)
SumAttended(records) ==
  IF records = << >> THEN 0
  ELSE (Head(records).totalAttended) + SumAttended(Tail(records))

\* Line 1427: the percentage of the last record that stores a positive one
RECURSIVE LastPercentage(_, _)
LastPercentage(records, percent) ==
  IF records = << >> THEN percent
  ELSE LastPercentage(Tail(records),
                      IF NumGt(Head(records).percentage, Int2Rat(0))
                        THEN Head(records).percentage ELSE percent)

\* Lines 1419-1445
percent(records) ==
  LET stored == LastPercentage(records, Int2Rat(0))
      total  == SumConducted(records)
  IN  IF stored = Int2Rat(0) /\ total > 0
        THEN Rat(SumAttended(records) * 100, total)
        ELSE stored

\* Lines 1460-1466
band(p) ==
  IF NumLt(p, Int2Rat(50)) THEN "below50"
  ELSE IF NumGe(p, Int2Rat(50)) /\ NumLe(p, Int2Rat(65)) THEN "between50to65"
  ELSE IF NumGt(p, Int2Rat(65)) /\ NumLe(p, Rat(7499, 100)) THEN "between65_1_to74_99"
  ELSE "none"

\* Attendance.find({studentId})
recordsOf(store, studentId) == SelectSeq(store, LAMBDA r : r.studentId = studentId)

\* Line 1404, then line 1418: the students of the query that have records
Reported(studs, store, division) ==
  SelectSeq(StudentOrder,
            LAMBDA id : /\ \E st \in studs :
                             st.id = id /\ (division # "" => st.division = division)
                        /\ recordsOf(store, id) # << >>)

BandList(studs, store, division, name) ==
  SelectSeq(Reported(studs, store, division),
            LAMBDA id : band(percent(recordsOf(store, id))) = name)

\* division is the query parameter, "" when absent
DefaultersReport(division) ==
  /\ resp' = [op |-> "report", status |-> 200,
              division |-> DivisionUpper(division),
              below50 |-> BandList(students, attendance, DivisionUpper(division), "below50"),
              between50to65 |->
                 BandList(students, attendance, DivisionUpper(division), "between50to65"),
              between65_1_to74_99 |->
                 BandList(students, attendance, DivisionUpper(division), "between65_1_to74_99")]
  /\ prev' = NoUpload
  /\ UNCHANGED << students, attendance, allocations, isRunning, calls, checks >>

Report == \E division \in {"", "A", "b"} : DefaultersReport(division)

\* The summaries a report is asked about: percentages at and around the
\* band limits, and summaries without a stored percentage
SummaryValues ==
  { << 40, 30, Rat(4999, 100) >>, << 40, 30, Int2Rat(50) >>, << 40, 30, Int2Rat(65) >>,
    << 40, 30, Rat(6501, 100) >>, << 40, 30, Rat(7499, 100) >>,
    << 40, 30, Rat(74995, 1000) >>, << 40, 30, Int2Rat(75) >>,
    << 2, 1, Int2Rat(0) >>, << 4, 3, Int2Rat(0) >>, << 0, 0, Int2Rat(0) >> }

SummaryRecords ==
  {Record(id, v[1], v[2], v[3]) : id \in {"s1", "s4"}, v \in SummaryValues}

MarkSummary ==
  /\ Len(attendance) < MaxSummaries
  /\ \E record \in SummaryRecords : MarkAttendance(record)

NextReport == MarkSummary \/ Report

SpecReport == Init /\ [][NextReport]_vars

(***************************************************************************)
(* checkDefaulters (lines 1477-1571) and the check that a successful       *)
(* upload hands to setImmediate (lines 1266-1280).  The callback runs      *)
(* after the handler's synchronous code, which sends the response; checks  *)
(* at the same position are one element of the set.                        *)
(***************************************************************************)
\* The subjects of the records, in the order in which subjectStats gets them
SubjectsIn(records) ==
  AddEachToSet(<< >>, [i \in 1..Len(records) |-> records[i].subjectId])

InList(ids, id) == \E i \in 1..Len(ids) : ids[i] = id

\* Lines 1485-1495: Attendance.find(attendanceQuery) for one student.  scoped
\* is FALSE when allocatedSubjectIds is null.
foundAttendance(store, studentId, scoped, allocatedSubjectIds) ==
  SelectSeq(store, LAMBDA r :
     /\ r.studentId = studentId
     /\ (scoped /\ Len(allocatedSubjectIds) > 0) => InList(allocatedSubjectIds, r.subjectId))

\* Lines 1499-1530: the records that subjectStats accumulates
countedAttendance(found, scoped, allocatedSubjectIds) ==
  SelectSeq(found, LAMBDA r : scoped => InList(allocatedSubjectIds, r.subjectId))

\* Lines 1532-1548: the subjects whose percentage is below the threshold
defaulterSubjects(counted, threshold) ==
  SelectSeq(SubjectsIn(counted), LAMBDA sid :
     NumLt(percent(SelectSeq(counted, LAMBDA r : r.subjectId = sid)),
           Int2Rat(threshold)))

checkDefaulters(studs, store, threshold, scoped, allocatedSubjectIds) ==
  LET subjectsOf(id) ==
        defaulterSubjects(
          countedAttendance(foundAttendance(store, id, scoped, allocatedSubjectIds),
                            scoped, allocatedSubjectIds),
          threshold)
      listed == SelectSeq(StudentOrder, LAMBDA id :
                  /\ \E st \in studs : st.id = id
                  /\ Len(subjectsOf(id)) > 0)
  IN  [i \in 1..Len(listed) |->
         [student |-> listed[i], defaulterSubjects |-> subjectsOf(listed[i])]]

\* A check that has come to its end: no defaulters ("none"), the alert
\* published ("alerted"), or the rejection logged by the catch ("failed")
Finished(outcome) == [pc |-> outcome, defaulters |-> << >>]

\* (As RunCheck, answering the request a second time when the check fails.)
RunCheckResponding(job, failed) ==
  /\ job.pc = "scheduled"
  /\ checks' = (checks \ {job}) \cup {Finished("none")}
  /\ resp' = IF failed THEN [op |-> "upload", status |-> 500] ELSE resp
  /\ UNCHANGED << students, attendance, allocations, prev, isRunning, calls >>

\* Lines 1267-1269: checkDefaulters(75), which answers [] when a query of it
\* rejects (lines 1567-1570)
RunCheck(job, failed) ==
  /\ job.pc = "scheduled"
  /\ LET defaulters == IF failed THEN << >>
                       ELSE checkDefaulters(students, attendance, 75, FALSE, << >>)
     IN  checks' = (checks \ {job}) \cup
                     { IF Len(defaulters) > 0
                         THEN [pc |-> "emit", defaulters |-> defaulters]
                         ELSE Finished("none") }
  /\ UNCHANGED << students, attendance, allocations, resp, prev, isRunning, calls >>

\* Lines 1270-1278: req.io.emitToRole resolves, or rejects into the catch
EmitAlert(job, rejected) ==
  /\ job.pc = "emit"
  /\ checks' = (checks \ {job}) \cup {Finished(IF rejected THEN "failed" ELSE "alerted")}
  /\ UNCHANGED << students, attendance, allocations, resp, prev, isRunning, calls >>

Check ==
  \E job \in checks :
     \/ \E failed \in BOOLEAN : RunCheck(job, failed)
     \/ \E rejected \in BOOLEAN : EmitAlert(job, rejected)

\* Uploads for division A that find defaulters (Term), find none (E2E), or
\* are turned down
AlertRequests ==
  { Request("A", TRUE, "xlsx", "none", "E2E"), Request("A", TRUE, "xlsx", "none", "Term"),
    Request("A", TRUE, "pdf", "none", "E2E") }

AlertUpload ==
  \E r \in AlertRequests :
     UploadDivisionSheet(r.division, r.hasFile, r.ext, r.throws, r.sheet)

NextAlert == AlertUpload \/ Check

SpecAlert == Init /\ [][NextAlert]_vars

(***************************************************************************)
(* The two defaulter views as a teacher or an admin asks for them:         *)
(* GET /defaulters (lines 1354-1380) and GET /defaulters/report (lines     *)
(* 1382-1474).  A teacher's views are scoped to the subjects of the        *)
(* allocations that name the teacher.                                      *)
(***************************************************************************)
\* Allocation.find({ teacherId: userId }).select('subjectId'), mapped to ids
allocatedSubjectIds(allocs, userId) ==
  LET own == SelectSeq(allocs, LAMBDA a : a.teacherId = userId)
  IN  [i \in 1..Len(own) |-> own[i].subjectId]

\* (As reportedFor, without line 1418.)
reportedAll(studs, store, division, scoped, ids) ==
  SelectSeq(StudentOrder, LAMBDA id :
     \E st \in studs : st.id = id /\ (division # "" => st.division = division))

\* Lines 1398-1418: the students of the query that have records in scope
reportedFor(studs, store, division, scoped, ids) ==
  SelectSeq(StudentOrder, LAMBDA id :
     /\ \E st \in studs : st.id = id /\ (division # "" => st.division = division)
     /\ foundAttendance(store, id, scoped, ids) # << >>)

bandListFor(studs, store, division, scoped, ids, name) ==
  SelectSeq(reportedFor(studs, store, division, scoped, ids),
            LAMBDA id : band(percent(foundAttendance(store, id, scoped, ids))) = name)

ReportResponse(division, role, userId, scoped, ids) ==
  [op |-> "report", status |-> 200, division |-> division,
   role |-> role, userId |-> userId,
   below50 |->
     IF scoped /\ Len(ids) = 0 THEN << >>
     ELSE bandListFor(students, attendance, division, scoped, ids, "below50"),
   between50to65 |->
     IF scoped /\ Len(ids) = 0 THEN << >>
     ELSE bandListFor(students, attendance, division, scoped, ids, "between50to65"),
   between65_1_to74_99 |->
     IF scoped /\ Len(ids) = 0 THEN << >>
     ELSE bandListFor(students, attendance, division, scoped, ids,
                      "between65_1_to74_99")]

DefaultersReportAs(division, role, userId) ==
  /\ resp' = ReportResponse(DivisionUpper(division), role, userId, role = "teacher",
                            allocatedSubjectIds(allocations, userId))
  /\ prev' = NoUpload
  /\ UNCHANGED << students, attendance, allocations, isRunning, calls, checks >>

DefaultersResponse(threshold, role, userId, scoped, ids) ==
  [op |-> "defaulters", status |-> 200, threshold |-> threshold,
   role |-> role, userId |-> userId,
   defaulters |->
     IF scoped /\ Len(ids) = 0 THEN << >>
     ELSE checkDefaulters(students, attendance, threshold, scoped, ids)]

GetDefaulters(threshold, role, userId) ==
  /\ resp' = DefaultersResponse(threshold, role, userId, role = "teacher",
                                allocatedSubjectIds(allocations, userId))
  /\ prev' = NoUpload
  /\ UNCHANGED << students, attendance, allocations, isRunning, calls, checks >>

\* The users that ask: an admin, the teachers t1 (Software Engineering) and
\* t2 (Networks) once their allocations exist, and a teacher without any
Users ==
  { << "admin", "a1" >>, << "teacher", "t1" >>, << "teacher", "t2" >>,
    << "teacher", "t3" >> }

TeacherAllocations ==
  { [subjectId |-> "subSE", type |-> "Theory", division |-> "A", batch |-> "",
     totalPlanned |-> 7, totalConducted |-> 5, students |-> << >>, teacherId |-> "t1"],
    [subjectId |-> "subCNS", type |-> "Theory", division |-> "A", batch |-> "",
     totalPlanned |-> 7, totalConducted |-> 5, students |-> << >>, teacherId |-> "t2"] }

RecordFor(studentId, subjectId, totalConducted, totalAttended, percentage) ==
  [studentId |-> studentId, subjectId |-> subjectId, type |-> "Theory",
   totalConducted |-> totalConducted, totalAttended |-> totalAttended,
   percentage |-> percentage]

\* Summaries of U1 and U4 in either subject: 25% by the totals, 60% stored
ViewRecords ==
  { RecordFor(id, sub, v[1], v[2], v[3]) :
      id \in {"s1", "s4"}, sub \in {"subSE", "subCNS"},
      v \in { << 40, 10, Int2Rat(0) >>, << 40, 24, Int2Rat(60) >> } }

MarkView ==
  /\ Len(attendance) < MaxSummaries
  /\ \E record \in ViewRecords : MarkAttendance(record)

AllocateTeacher == \E a \in TeacherAllocations : CreateAllocation(a)

DefaultersView ==
  \E threshold \in {50, 75} : \E u \in Users : GetDefaulters(threshold, u[1], u[2])

ReportView == \E u \in Users : DefaultersReportAs("", u[1], u[2])

NextViews == MarkView \/ AllocateTeacher \/ DefaultersView \/ ReportView

SpecViews == Init /\ [][NextViews]_vars

(***************************************************************************)
(* Sheets put together from parts, for the properties that compare one     *)
(* upload with another: a sheet is described by its header shape, its two  *)
(* subject cells and its data rows, and the upload of it is the request of *)
(* lines 437-511 with that file.                                           *)
(***************************************************************************)
XY == << "X", "Y" >>

NoBatches == NoBatchInfo

OnlyB == [b \in {"B"} |-> 9]

BothAB == [b \in {"A", "B"} |-> IF b = "A" THEN 10 ELSE 11]

\* One data row of a description: the UID, the batch letter, and the attended
\* and percentage cells of the Theory and of the Lab subject.
RowOf(uid, batch, a, p, la, lp) ==
  [uid |-> uid, batch |-> batch, a |-> a, p |-> p, la |-> la, lp |-> lp]

Described(header, thCode, thTotal, labCode, labBatches, rows) ==
  [header |-> header, thCode |-> thCode, thTotal |-> thTotal,
   labCode |-> labCode, labBatches |-> labBatches, rows |-> rows]

HeaderRow(header) ==
  CASE header = "full" ->
         << HRoll, HUid, HName, HBatch, HAttended, HPercent, HAttended, HPercent >>
    [] header = "noUid" ->
         << HRoll, Blank, HName, HBatch, HAttended, HPercent, HAttended, HPercent >>
    [] header = "noAttended" ->
         << HRoll, HUid, HName, HBatch, Blank, Blank, Blank, Blank >>
    [] header = "plain" ->
         << HRoll, HUid, HName, HBatch, HAttended, Txt("Remarks"),
            HAttended, Txt("Remarks") >>
    [] OTHER -> << >>

\* The grid that XLSX.utils.sheet_to_json(..., {header: 1, defval: ''}) gives
\* for the described sheet: title, categories, subjects, headers, data rows.
BuiltSheet(desc) ==
  << << Blank, Txt("Attendance"), Blank, Blank, Blank >>,
     << Blank, Blank, Blank, Blank, Kw({"THEORY"}), Blank, Kw({"LAB"}), Blank >>,
     << Blank, Blank, Blank, Blank, ThCell(desc.thCode, desc.thTotal), Blank,
        LabCell(desc.labCode, desc.labBatches), Blank >>,
     HeaderRow(desc.header) >>
  \o [i \in 1..Len(desc.rows) |->
        DataRow(i, desc.rows[i].uid, desc.rows[i].batch,
                << desc.rows[i].a, desc.rows[i].p, desc.rows[i].la, desc.rows[i].lp >>)]

\* Attended cells: blank, 0, whole and fractional figures, a text, a negative
AttendedCells ==
  { Blank, NumCell(0, 1), NumCell(9, 1), NumCell(30, 1), NumCell(25, 2),
    Txt("AB"), NumCell(-1, 1) }

PercentCells == { Blank, NumCell(50, 1), NumCell(90, 1) }

\* A sheet of one row, for a student with a batch (U1) or without one (U3)
CellSheets ==
  { Described("full", SE, t, SE, bi, << RowOf(st[1], st[2], a, p, a, p) >>) :
      st \in {<< "U1", "A" >>, << "U3", "" >>}, t \in {0, 10, 32},
      bi \in {NoBatches, OnlyB, BothAB}, a \in AttendedCells, p \in PercentCells }

\* Rows of the students of division A, of a student of another division (U4)
\* and of a student whose Theory cell is not a number
RowU1 == RowOf("U1", "A", NumCell(20, 1), NumCell(50, 1), NumCell(30, 1), Blank)

RowU2 == RowOf("U2", "B", NumCell(13, 1), NumCell(65, 1), NumCell(9, 1), Blank)

RowU3 == RowOf("U3", "", Txt("AB"), NumCell(75, 1), NumCell(6, 1), Blank)

RowU4 == RowOf("U4", "A", NumCell(30, 1), NumCell(94, 1), NumCell(10, 1), Blank)

RowPool == { RowU1, RowU2, RowU3, RowU4 }

\* The sequences of distinct rows of the pool
RowOrders ==
  { << >> } \cup { << r >> : r \in RowPool }
    \cup { o \in { << r1, r2 >> : r1 \in RowPool, r2 \in RowPool } : o[1] # o[2] }
    \cup { o \in { << r1, r2, r3 >> : r1 \in RowPool, r2 \in RowPool, r3 \in RowPool } :
             o[1] # o[2] /\ o[1] # o[3] /\ o[2] # o[3] }

RowSheets == { Described("full", SE, 32, SE, OnlyB, rows) : rows \in RowOrders }

\* Sheets with more unmatched rows than the response lists
LongSheets ==
  { Described("full", SE, 32, SE, OnlyB, [i \in 1..n |-> RowU4] \o << RowU1 >>) :
      n \in {10, 11, 12} }

\* Sheets whose subject codes the catalog has or does not have
CodeSheets ==
  { Described("full", th, 32, lab, BothAB, << RowU1, RowU2 >>) :
      th \in {SE, XY}, lab \in {CNS, XY} }

\* Sheets without a header row, without a UID column, without attended columns
ShapeSheets ==
  { Described(h, SE, 32, SE, BothAB, << RowU1 >>) : h \in {"none", "noUid", "noAttended"} }

\* Sheets whose attended columns have a 'Remarks' column to their right, not a
\* '%' column; the cell under 'Remarks' is blank or holds a figure
PlainSheets ==
  { Described("plain", SE, t, SE, bi, << RowOf("U1", "A", a, p, a, p) >>) :
      t \in {0, 32}, bi \in {NoBatches, BothAB},
      a \in {NumCell(9, 1), NumCell(30, 1)}, p \in PercentCells }

BuiltSheets ==
  CellSheets \cup RowSheets \cup LongSheets \cup CodeSheets \cup ShapeSheets
    \cup PlainSheets

BuiltRequest(division, ext, desc) == [division |-> division, ext |-> ext, desc |-> desc]

\* Every described sheet for division A; one sheet for a division without
\* students and one file of an unsupported format
BuiltRequests ==
  { BuiltRequest("A", "xlsx", desc) : desc \in BuiltSheets }
    \cup { BuiltRequest("C", "xlsx", Described("full", SE, 32, SE, BothAB, << RowU1 >>)),
           BuiltRequest("A", "pdf", Described("full", SE, 32, SE, BothAB, << RowU1 >>)) }

BuiltOutcome(division, ext, desc, sheetData, lay, divStudents) ==
  Outcome(division, division, TRUE, ext, "none", desc, lay,
          FatalOf(lay, divStudents, "none"),
          ProcessSheet(sheetData, lay, division, divStudents, attendance))

UploadSheetData(division, ext, desc, sheetData) ==
  Respond(BuiltOutcome(division, ext, desc, sheetData, Layout(sheetData, division),
                       {s \in students : s.division = division}))

UploadBuilt(r) == UploadSheetData(r.division, r.ext, r.desc, BuiltSheet(r.desc))

\* The first sheet to be merged: no upload has succeeded before it
FirstUpload ==
  /\ checks = {}
  /\ Marked = 1..Len(attendance)
  /\ \E r \in BuiltRequests : UploadBuilt(r)

NextSheets == FirstUpload \/ Mark \/ Allocate

SpecSheets == Init /\ [][NextSheets]_vars

(***************************************************************************)
(* Properties of the division-sheet upload.                                *)
(***************************************************************************)
UploadOk(r) == r.op = "upload" /\ r.status = 200

Elems(seq) == {seq[i] : i \in 1..Len(seq)}

NoDuplicates(seq) == \A i, j \in 1..Len(seq) : seq[i] = seq[j] => i = j

\* (studentId, subjectId, kind) of a stored summary
DocKey(doc) == << doc.studentId, doc.subjectId, doc.type >>

\* The key of an allocation, as the reconciler builds it
KeyOf(a) == << a.subjectId, a.type, a.division, a.batch >>

\* What an upload of the sheet writes, whatever the store holds
WrittenBy(sheet, division) == Processed(sheet, division, students, << >>)

Touched(sheet, division) ==
  {DocKey(d) : d \in Elems(WrittenBy(sheet, division).written)}

LastWritten(sheet, division, key) ==
  LET w == WrittenBy(sheet, division).written
  IN  w[MaxOf({i \in 1..Len(w) : DocKey(w[i]) = key})]

\* The totals the sheet declares for the key of allocation a: the Total figure
\* of a Theory column, the batch total of a Practical column for a's batch.
DeclaredTotals(sheet, division, a) ==
  LET map == LayoutOf[sheet][division].subjectMap
  IN  {t \in {IF map[c].type = "Theory" THEN map[c].totalLectures
                                          ELSE BatchGet(map[c].batchInfo, a.batch) :
                c \in {x \in DOMAIN map : /\ map[x].subjectId = a.subjectId
                                          /\ map[x].type = a.type
                                          /\ division = a.division}} : t # 0}

SameTotals(d1, d2) ==
  /\ d1.totalConducted = d2.totalConducted
  /\ d1.totalAttended = d2.totalAttended
  /\ d1.percentage = d2.percentage

\* C1: an upload of the sheet that the request before it uploaded (same
\* division, a sheet with a period) adds no summary and leaves
\* totalConducted, totalAttended and percentage of every summary as they were.
C1_Idempotent ==
  [][ ( /\ UploadOk(resp) /\ UploadOk(resp')
        /\ resp'.sheet = resp.sheet /\ resp'.division = resp.division
        /\ LayoutOf[resp.sheet][resp.division].period # "" )
      => /\ Len(attendance') = Len(attendance)
         /\ \A i \in 1..Len(attendance) : SameTotals(attendance'[i], attendance[i]) ]_vars

C1_Witness ==
  /\ UploadOk(resp) /\ resp.sheet = "Term" /\ resp.division = "A"
  /\ prev = [sheet |-> "Term", division |-> "A"]
  /\ Len(attendance) >= 6

\* C2: no two stored summaries share (studentId, subjectId, kind, period),
\* a null period counting as one slot.
C2_Unique ==
  \A i, j \in 1..Len(attendance) :
     (DocKey(attendance[i]) = DocKey(attendance[j])
        /\ attendance[i].period = attendance[j].period) => i = j

\* C3: after two undated sheets uploaded one after the other for one division,
\* every (student, subject, kind) written by both has exactly one summary
\* with a null period, and it holds what the second upload wrote.  (The
\* uploads merge into the first match; summaries that /mark saved twice for
\* one slot stay two.)
C3_NullPeriodMerge ==
  ( /\ prev # NoUpload /\ UploadOk(resp) /\ prev.division = resp.division
    /\ LayoutOf[prev.sheet][prev.division].period = ""
    /\ LayoutOf[resp.sheet][resp.division].period = "" )
  => \A k \in Touched(prev.sheet, prev.division) \cap Touched(resp.sheet, resp.division) :
       LET S == {i \in 1..Len(attendance) :
                   DocKey(attendance[i]) = k /\ attendance[i].period = ""}
       IN  /\ Cardinality(S) = 1
           /\ \A i \in S :
                SameTotals(attendance[i], LastWritten(resp.sheet, resp.division, k))

\* C4: once the response to an upload that carried a file is sent, the file
\* has been deleted.
C4_FileDeleted ==
  (resp.op = "upload" /\ resp.hadFile) => ~resp.fileOnDisk

\* C6: an upload leaves totalPlanned and totalConducted of an allocation as
\* they were when the sheet declares no total for the allocation's key.
C6_NoFallbackOverwrite ==
  [][ UploadOk(resp')
      => \A j \in 1..Len(allocations) :
           DeclaredTotals(resp'.sheet, resp'.division, allocations[j]) = {}
             => /\ allocations'[j].totalPlanned = allocations[j].totalPlanned
                /\ allocations'[j].totalConducted = allocations[j].totalConducted ]_vars

\* C7: after an upload, an allocation for whose key the sheet declares the
\* total T (and under whose key a student was processed) has
\* totalPlanned = totalConducted = T.
C7_TotalsOverwritten ==
  [][ UploadOk(resp')
      => \A j \in 1..Len(allocations) :
           \A T \in DeclaredTotals(resp'.sheet, resp'.division, allocations[j]) :
             (\E u \in Elems(WrittenBy(resp'.sheet, resp'.division).allocationStudents) :
                 u.key = KeyOf(allocations[j]))
             => /\ allocations'[j].totalPlanned = T
                /\ allocations'[j].totalConducted = T ]_vars

\* C8: an upload removes no member from any allocation, leaves every student
\* processed under an allocation's key among its members, and no member
\* appears twice.
C8_MembershipGrows ==
  [][ UploadOk(resp')
      => LET tracked == Elems(WrittenBy(resp'.sheet, resp'.division).allocationStudents)
         IN  /\ Len(allocations') = Len(allocations)
             /\ \A j \in 1..Len(allocations) :
                  /\ Elems(allocations[j].students) \subseteq Elems(allocations'[j].students)
                  /\ NoDuplicates(allocations'[j].students)
                  /\ \A u \in tracked :
                       u.key = KeyOf(allocations'[j])
                         => Elems(u.students) \subseteq Elems(allocations'[j].students) ]_vars

C8_Witness ==
  /\ UploadOk(resp) /\ prev # NoUpload
  /\ \E j \in 1..Len(allocations) :
       /\ allocations[j].type = "Theory"
       /\ Elems(allocations[j].students) = {"s1", "s2", "s3"}

\* C9: the upload of the example sheet for division A, with no summary for
\* (U1, SE, Theory) stored before and the (SE, Theory, A) allocation in place,
\* ends with exactly one summary for (U1, SE, Theory), 32 conducted, 28
\* attended, 87.5 percent, and the allocation at 32/32 with U1 a member.
IsE2EKey(doc) == DocKey(doc) = << "s1", "subSE", "Theory" >>

IsTheoryA(a) == KeyOf(a) = << "subSE", "Theory", "A", "" >>

E2EResult(store, allocs) ==
  /\ Cardinality({i \in 1..Len(store) : IsE2EKey(store[i])}) = 1
  /\ \A i \in 1..Len(store) :
       IsE2EKey(store[i])
         => /\ store[i].totalConducted = 32
            /\ store[i].totalAttended = 28
            /\ store[i].percentage = Rat(875, 10)
  /\ \A j \in 1..Len(allocs) :
       IsTheoryA(allocs[j])
         => /\ allocs[j].totalPlanned = 32
            /\ allocs[j].totalConducted = 32
            /\ "s1" \in Elems(allocs[j].students)

C9_EndToEnd ==
  [][ ( /\ UploadOk(resp') /\ resp'.sheet = "E2E" /\ resp'.division = "A"
        /\ \A i \in 1..Len(attendance) : ~IsE2EKey(attendance[i])
        /\ \E j \in 1..Len(allocations) : IsTheoryA(allocations[j]) )
      => E2EResult(attendance', allocations') ]_vars

C9_Witness ==
  /\ UploadOk(resp) /\ resp.sheet = "E2E" /\ resp.division = "A"
  /\ prev = NoUpload
  /\ \E j \in 1..Len(allocations) : IsTheoryA(allocations[j])
  /\ E2EResult(attendance, allocations)

(***************************************************************************)
(* Properties of the periodic allocation sync.                             *)
(***************************************************************************)
\* C5: at most one invocation of syncAllocationStudents is in progress; an
\* invocation made while another is in progress returns at once, leaves
\* every allocation as it was, and never runs later.
C5_SingleFlight ==
  [][ /\ Cardinality(Running(calls')) <= 1
      /\ \A c \in Calls :
           /\ ( calls[c].pc = "idle" /\ calls'[c].pc # "idle" /\ Running(calls) # {} )
                => /\ calls'[c].pc = "skipped"
                   /\ allocations' = allocations
                   /\ isRunning' = isRunning
           /\ calls[c].pc = "skipped" => calls'[c] = calls[c] ]_vars

C5_Witness ==
  \E c, d \in Calls :
     /\ calls[c].pc = "skipped"
     /\ calls[d].pc = "save"
     /\ Len(calls[d].studentIds) >= 2

(***************************************************************************)
(* Properties of the defaulter report.                                     *)
(***************************************************************************)
InBand(list, id) == \E i \in 1..Len(list) : list[i] = id

\* C10: in a report every student with records and percentage p is in
\* below50 iff p < 50, in between50to65 iff 50 <= p <= 65, in the third band
\* iff 65 < p < 75; so a student below 75 is in exactly one band and a
\* student at 75 or above is in none.
C10_Bands ==
  resp.op = "report"
    => \A id \in {x \in {st.id : st \in students} : recordsOf(attendance, x) # << >>} :
         LET p == percent(recordsOf(attendance, id))
             scope == \E st \in students :
                         st.id = id /\ (resp.division # "" => st.division = resp.division)
         IN  scope =>
               /\ InBand(resp.below50, id) <=> NumLt(p, Int2Rat(50))
               /\ InBand(resp.between50to65, id)
                    <=> (NumGe(p, Int2Rat(50)) /\ NumLe(p, Int2Rat(65)))
               /\ InBand(resp.between65_1_to74_99, id)
                    <=> (NumGt(p, Int2Rat(65)) /\ NumLt(p, Int2Rat(75)))

(***************************************************************************)
(* Properties of the upload of a described sheet (SpecSheets).             *)
(***************************************************************************)
IdOf(uid) == (CHOOSE s \in AllStudents : s.uid = uid).id

\* The summaries of a student and type that an upload has written
WrittenFor(store, studentId, type) ==
  SelectSeq(store, LAMBDA d : d.studentId = studentId /\ d.type = type /\ d.division # "")

\* The attended cell reads as a number that is not negative
IsCount(a) == ~IsNaN(a) /\ NumGe(a, Int2Rat(0))

FloorOf(a) == Max2(MathRound(a), MathCeil(Times1_2(a)))

\* The total of a Theory cell before the floor: the declared Total, else the
\* total implied by the percentage, else the attended figure
TheoryTotal(declared, a, p) ==
  IF declared # 0 THEN declared
  ELSE IF NumGt(p, Int2Rat(0)) THEN MathRound(DivTimes100(a, p))
  ELSE MathRound(a)

(***************************************************************************)
(* C11  Every summary written by an upload has totalConducted >=           *)
(* totalAttended.  When the total obtained from the declared Total, the    *)
(* percentage or the attended figure is missing or below the attended      *)
(* figure, the stored total is max(round(attended), ceil(attended * 1.2)); *)
(* 30 attended with no percentage and no declared Total stores a total of  *)
(* at least 30.                                                            *)
(***************************************************************************)
C11_SafetyFloor ==
  /\ \A i \in 1..Len(attendance) :
        attendance[i].division # ""
          => attendance[i].totalConducted >= attendance[i].totalAttended
  /\ UploadOk(resp) /\ resp.sheet \in CellSheets =>
        LET row  == resp.sheet.rows[1]
            a    == CellNumber(row.a)
            p    == CellNumber(row.p)
            t1   == TheoryTotal(resp.sheet.thTotal, a, p)
            docs == WrittenFor(attendance, IdOf(row.uid), "Theory")
        IN  IsCount(a) =>
              /\ Len(docs) = 1
              /\ (t1 = 0 \/ NumLt(Int2Rat(t1), a))
                    => docs[1].totalConducted = FloorOf(a)
              /\ (a = Int2Rat(30) /\ row.p = Blank /\ resp.sheet.thTotal = 0)
                    => docs[1].totalConducted >= 30

\* 30 attended under a declared Total of 10: the floor stores 36
C11_Witness ==
  /\ UploadOk(resp) /\ resp.sheet \in CellSheets
  /\ resp.sheet.thTotal = 10 /\ resp.sheet.rows[1].a = NumCell(30, 1)
  /\ \E i \in 1..Len(attendance) :
        /\ attendance[i].type = "Theory" /\ attendance[i].division = "A"
        /\ attendance[i].totalAttended = 30 /\ attendance[i].totalConducted = 36

\* The rows of a description whose UID is not a student of the division
UnmatchedRows(desc, division) ==
  {i \in 1..Len(desc.rows) :
     ~\E s \in students : s.division = division /\ s.uid = desc.rows[i].uid}

WithoutUnmatched(desc, division) ==
  [desc EXCEPT !.rows =
     SelectSeq(@, LAMBDA r : \E s \in students : s.division = division /\ s.uid = r.uid)]

\* What the upload of a described sheet for division A does to the collections
\* as they are
OutcomeOf(desc) ==
  BuiltOutcome("A", "xlsx", desc, BuiltSheet(desc), Layout(BuiltSheet(desc), "A"),
               {s \in students : s.division = "A"})

(***************************************************************************)
(* C12  A row whose UID matches no student of the division adds exactly    *)
(* one per-row error and one to studentsNotFound, writes no summary and    *)
(* touches no allocation; the other rows are processed as if the row were  *)
(* not in the sheet.                                                       *)
(***************************************************************************)
C12_UnmatchedRow ==
  [][ UploadOk(resp') /\ resp'.sheet \in RowSheets \cup LongSheets =>
        LET n       == Cardinality(UnmatchedRows(resp'.sheet, "A"))
            without == OutcomeOf(WithoutUnmatched(resp'.sheet, "A"))
        IN  /\ resp'.errorCount = without.resp.errorCount + n
            /\ resp'.studentsNotFound = without.resp.studentsNotFound + n
            /\ resp'.studentsFound = without.resp.studentsFound
            /\ resp'.recordsCreated = without.resp.recordsCreated
            /\ attendance' = without.attendance
            /\ allocations' = without.allocations ]_vars

\* U4's row comes first and U1's row after it is merged
C12_Witness ==
  /\ UploadOk(resp) /\ resp.sheet \in RowSheets
  /\ resp.sheet.rows = << RowU4, RowU1 >>
  /\ resp.errorCount = 1 /\ resp.studentsNotFound = 1
  /\ Len(WrittenFor(attendance, "s1", "Theory")) = 1
  /\ \A i \in 1..Len(attendance) : attendance[i].studentId # "s4"
  /\ allocations # << >>

\* The rows of a description with a per-row error, in row order: the UID is
\* not a student of the division, or an attended cell is not a number
ErrorRows(desc, division) ==
  SelectSeq([i \in 1..Len(desc.rows) |-> i],
            LAMBDA i : \/ i \in UnmatchedRows(desc, division)
                       \/ IsNaN(CellNumber(desc.rows[i].a))
                       \/ IsNaN(CellNumber(desc.rows[i].la)))

\* The 1-based sheet row of a data row of a description (rowIndex + 1)
SheetRow(i) == 4 + i

(***************************************************************************)
(* C13  With n per-row errors (unmatched students and non-numeric attended *)
(* cells) a successful upload answers errorCount = n and an errors list of *)
(* the first min(n, 10) of them, in row order.                             *)
(***************************************************************************)
C13_ErrorList ==
  UploadOk(resp) /\ resp.sheet \in RowSheets \cup LongSheets =>
    LET rows == ErrorRows(resp.sheet, "A")
    IN  /\ resp.errorCount = Len(rows)
        /\ Len(resp.errors) = Min2(Len(rows), 10)
        /\ \A k \in 1..Len(resp.errors) : resp.errors[k].row = SheetRow(rows[k])

(***************************************************************************)
(* C14  The defaulter check that follows a successful upload begins only   *)
(* after the success response has been produced, and whatever it does      *)
(* (finds defaulters, finds none, fails in classification or in            *)
(* publishing) it sends no second response and changes nothing of the      *)
(* upload's outcome.                                                       *)
(***************************************************************************)
C14_Decoupled ==
  [][ /\ (Scheduled \in checks' /\ Scheduled \notin checks) => UploadOk(resp')
      /\ (\E job \in checks' \ checks : job.pc # "scheduled") => checks \ checks' # {}
      /\ checks \ checks' # {} =>
            /\ \A job \in checks' \ checks : job.pc # "scheduled"
            /\ resp' = resp /\ prev' = prev
            /\ attendance' = attendance /\ allocations' = allocations
            /\ students' = students ]_vars

\* Checks have found none, published and failed, and the response is the
\* upload's
C14_Witness ==
  /\ UploadOk(resp)
  /\ {Finished("none"), Finished("alerted"), Finished("failed")} \subseteq checks

(***************************************************************************)
(* C15  recordsCreated of a successful upload is the number of summaries   *)
(* that did not exist before the upload and exist after it; uploading an   *)
(* identical sheet again reports zero.                                     *)
(***************************************************************************)
C15_RecordsCreated ==
  [][ UploadOk(resp') =>
        /\ resp'.recordsCreated = Len(attendance') - Len(attendance)
        /\ (UploadOk(resp) /\ resp.sheet = resp'.sheet /\ resp.division = resp'.division)
              => resp'.recordsCreated = 0 ]_vars

(***************************************************************************)
(* C16  An upload that ends with a fatal error (UnsupportedFormat,         *)
(* HeaderNotFound, MissingColumns, NoSubjectsDetected, NoSubjectMatch, no  *)
(* students in the division) leaves the Attendance, Student and Allocation *)
(* collections as they were.                                               *)
(***************************************************************************)
C16_FatalWritesNothing ==
  [][ (resp'.op = "upload" /\ resp'.status # 200) =>
        /\ attendance' = attendance
        /\ allocations' = allocations
        /\ students' = students ]_vars

\* A sheet whose subjects the catalog does not have is turned down while the
\* collections hold documents
C16_Witness ==
  /\ resp.op = "upload" /\ resp.status = 400 /\ resp.error = "NoSubjectMatch"
  /\ attendance # << >> /\ allocations # << >>

\* The sheet subject code resolves to a subject of the catalog
Resolves(code) == dbSubject([name |-> code], allDbSubjects) # 0

SubjectIdOf(code) == allDbSubjects[dbSubject([name |-> code], allDbSubjects)].id

(***************************************************************************)
(* C17  When at least one subject of the sheet resolves, the upload goes   *)
(* on and processes exactly the resolved columns; when none resolves it    *)
(* ends with NoSubjectMatch and the response lists the sheet's subject     *)
(* codes and the catalog's codes.                                          *)
(***************************************************************************)
C17_PartialSubjectMatch ==
  [][ /\ UploadOk(resp') /\ resp'.sheet \in CodeSheets =>
            LET d        == resp'.sheet
                cols     == {<< d.thCode, "Theory" >>, << d.labCode, "Practical" >>}
                resolved == {c \in cols : Resolves(c[1])}
                expected == {<< IdOf(d.rows[i].uid), SubjectIdOf(c[1]), c[2] >> :
                               i \in 1..Len(d.rows), c \in resolved}
            IN  /\ resolved # {}
                /\ {DocKey(attendance'[i]) :
                      i \in {j \in 1..Len(attendance') : attendance'[j].division # ""}}
                     = expected
                /\ resp'.recordsCreated = Cardinality(expected)
      /\ (resp'.op = "upload" /\ resp'.status # 200 /\ resp'.error = "NoSubjectMatch") =>
            /\ resp'.status = 400
            /\ Len(resp'.sheetSubjects) > 0
            /\ \A i \in 1..Len(resp'.sheetSubjects) : ~Resolves(resp'.sheetSubjects[i])
            /\ [i \in 1..Len(resp'.databaseSubjects) |-> resp'.databaseSubjects[i].code]
                 = [i \in 1..Len(allDbSubjects) |-> allDbSubjects[i].code] ]_vars

\* The Theory code is not in the catalog and the Lab code is: only the Lab
\* column is processed
C17_Witness ==
  /\ UploadOk(resp) /\ resp.sheet \in CodeSheets
  /\ resp.sheet.thCode = XY /\ resp.sheet.labCode = CNS
  /\ resp.recordsCreated = 2
  /\ \A i \in 1..Len(attendance) :
        attendance[i].division # ""
          => attendance[i].type = "Practical" /\ attendance[i].subjectId = "subCNS"

\* The records of a student that are in the scope of the user who asks
InScope(store, allocs, studentId, role, userId) ==
  SelectSeq(store, LAMBDA r :
     /\ r.studentId = studentId
     /\ role = "teacher" => \E i \in 1..Len(allocs) :
                               allocs[i].teacherId = userId /\ allocs[i].subjectId = r.subjectId)

(***************************************************************************)
(* C18  A student with no record in scope is in neither defaulter view,    *)
(* whatever the threshold and the teacher scoping.                         *)
(***************************************************************************)
C18_NoDataOmitted ==
  /\ resp.op = "defaulters" =>
        \A i \in 1..Len(resp.defaulters) :
           InScope(attendance, allocations, resp.defaulters[i].student,
                   resp.role, resp.userId) # << >>
  /\ resp.op = "report" =>
        \A id \in Elems(resp.below50) \cup Elems(resp.between50to65)
                  \cup Elems(resp.between65_1_to74_99) :
           InScope(attendance, allocations, id, resp.role, resp.userId) # << >>

\* Teacher t2 asks: U1 has a summary, but none in Networks, and is left out,
\* while U4 is listed
C18_Witness ==
  /\ resp.op = "defaulters" /\ resp.role = "teacher" /\ resp.userId = "t2"
  /\ recordsOf(attendance, "s1") # << >>
  /\ InScope(attendance, allocations, "s1", "teacher", "t2") = << >>
  /\ Len(resp.defaulters) = 1 /\ resp.defaulters[1].student = "s4"

\* The totals of the allocations, in stored order
TotalsOf(allocs) ==
  [i \in 1..Len(allocs) |-> << allocs[i].totalPlanned, allocs[i].totalConducted >>]

(***************************************************************************)
(* C19  Rows are independent: with the header, the catalog and the         *)
(* students fixed, uploading the data rows in any other order ends with    *)
(* the same summaries and the same allocation totals.                      *)
(***************************************************************************)
C19_RowIndependence ==
  [][ UploadOk(resp') /\ resp'.sheet \in RowSheets =>
        \A rows \in RowOrders :
           Elems(rows) = Elems(resp'.sheet.rows) =>
             LET other == OutcomeOf([resp'.sheet EXCEPT !.rows = rows])
             IN  /\ Elems(other.attendance) = Elems(attendance')
                 /\ TotalsOf(other.allocations) = TotalsOf(allocations') ]_vars

\* The total implied by the cells alone, with the floor applied
DerivedTotal(a, p) ==
  LET t1 == TheoryTotal(0, a, p)
  IN  IF t1 = 0 \/ NumLt(Int2Rat(t1), a) THEN FloorOf(a) ELSE t1

(***************************************************************************)
(* C20  For a Practical subject and a student whose batch has no entry in  *)
(* the subject's batch totals, totalConducted is round(attended /          *)
(* percentage * 100) when the percentage is positive and round(attended)   *)
(* otherwise, before the floor; a total declared for another batch or for  *)
(* the division letter is not used.                                        *)
(***************************************************************************)
C20_PracticalDerivation ==
  UploadOk(resp) /\ resp.sheet \in CellSheets =>
    LET row  == resp.sheet.rows[1]
        la   == CellNumber(row.la)
        lp   == CellNumber(row.lp)
        docs == WrittenFor(attendance, IdOf(row.uid), "Practical")
    IN  (IsCount(la) /\ BatchGet(resp.sheet.labBatches, row.batch) = 0) =>
          /\ Len(docs) = 1
          /\ docs[1].totalConducted = DerivedTotal(la, lp)

(***************************************************************************)
(* C21  Practical reconciliation is keyed on batch: an upload modifies the *)
(* totals or the membership of a Practical allocation only for the key     *)
(* with exactly its subject, division and batch; a processed student with  *)
(* an empty batch changes no Practical allocation.                         *)
(***************************************************************************)
C21_PracticalKeyedOnBatch ==
  [][ UploadOk(resp') =>
        \A i \in 1..Len(allocations) :
           allocations[i].type = "Practical" =>
             LET a   == allocations[i]
                 b   == allocations'[i]
                 acc == WrittenBy(resp'.sheet, resp'.division)
             IN  /\ \A id \in Elems(b.students) \ Elems(a.students) :
                       \E st \in students :
                          st.id = id /\ st.division = a.division /\ st.batch = a.batch
                 /\ << b.totalPlanned, b.totalConducted >>
                       # << a.totalPlanned, a.totalConducted >>
                     => \E k \in 1..Len(acc.allocationUpdates) :
                           /\ acc.allocationUpdates[k].key = KeyOf(a)
                           /\ b.totalPlanned = acc.allocationUpdates[k].total
                           /\ b.totalConducted = acc.allocationUpdates[k].total ]_vars

(***************************************************************************)
(* The sheet that GET /sample-sheet generates (lines 381-434): five Theory *)
(* and four Lab subjects, each an attended column with its '% attended'    *)
(* column to the right; the subject row declares the code above the        *)
(* attended column.                                                        *)
(***************************************************************************)
BatchTotals(a, b, c, d) ==
  [x \in {"A", "B", "C", "D"} |->
     CASE x = "A" -> a [] x = "B" -> b [] x = "C" -> c [] x = "D" -> d]

\* subjectRow: what each attended column declares, left to right
SampleDeclared ==
  << [code |-> SE,   type |-> "Theory",    total |-> 32, batches |-> NoBatchInfo],
     [code |-> CNS,  type |-> "Theory",    total |-> 29, batches |-> NoBatchInfo],
     [code |-> DC,   type |-> "Theory",    total |-> 29, batches |-> NoBatchInfo],
     [code |-> AISC, type |-> "Theory",    total |-> 29, batches |-> NoBatchInfo],
     [code |-> TOC,  type |-> "Theory",    total |-> 36, batches |-> NoBatchInfo],
     [code |-> SE,   type |-> "Practical", total |-> 0,  batches |-> BatchTotals(10, 11, 11, 10)],
     [code |-> CNS,  type |-> "Practical", total |-> 0,  batches |-> BatchTotals(11, 10, 10, 10)],
     [code |-> DC,   type |-> "Practical", total |-> 0,  batches |-> BatchTotals(11, 10, 10, 10)],
     [code |-> AISC, type |-> "Practical", total |-> 0,  batches |-> BatchTotals(10, 10, 9, 11)] >>

\* The attended column of the k-th declared subject
SampleCol(k) == 4 + 2 * (k - 1)

SampleSubjectCell(d) ==
  IF d.type = "Theory" THEN ThCell(d.code, d.total) ELSE LabCell(d.code, d.batches)

\* A row of figures to the cells of a data row
SampleCells(figures) == [i \in 1..Len(figures) |-> NumCell(figures[i], 1)]

\* dataRows: the first two sample students, as U1 (batch A) and U2 (batch B)
SampleRow1 ==
  [uid |-> "U1", batch |-> "A",
   figures |-> << 28, 88, 25, 86, 24, 83, 26, 90, 36, 100, 10, 100, 10, 91, 11, 91, 9, 90 >>]

SampleRow2 ==
  [uid |-> "U2", batch |-> "B",
   figures |-> << 31, 97, 27, 93, 26, 90, 28, 97, 36, 100, 9, 90, 11, 100, 10, 91, 10, 100 >>]

SampleRowOrders ==
  { << SampleRow1 >>, << SampleRow2 >>,
    << SampleRow1, SampleRow2 >>, << SampleRow2, SampleRow1 >> }

\* aoa = [monthRow, [], categoryRow, subjectRow, headerRow, ...dataRows]
SampleSheet(rows) ==
  << << Blank, Txt("Month & Year"), Blank, Blank, PeriodCell(Aug25ToOct25) >>,
     << >>,
     << Blank, Blank, Blank, Blank, Kw({"THEORY"}) >>
       \o [i \in 1..9 |-> Blank] \o << Kw({"LAB"}) >> \o [i \in 1..7 |-> Blank],
     << Blank, Blank, Blank, Blank >>
       \o [i \in 1..18 |-> IF i % 2 = 1 THEN SampleSubjectCell(SampleDeclared[(i + 1) \div 2])
                                         ELSE Blank],
     << HRoll, HUid, HName, HBatch >>
       \o [i \in 1..18 |-> IF i % 2 = 1 THEN HAttended ELSE HPercent] >>
  \o [i \in 1..Len(rows) |->
        DataRow(i, rows[i].uid, rows[i].batch, SampleCells(rows[i].figures))]

SampleDescribed(rows) == [header |-> "sample", rows |-> rows]

\* The sample sheet, filled in and uploaded for division A
SampleUpload ==
  /\ checks = {}
  /\ Marked = 1..Len(attendance)
  /\ \E rows \in SampleRowOrders :
        UploadSheetData("A", "xlsx", SampleDescribed(rows), SampleSheet(rows))

NextSample == SampleUpload \/ Mark \/ Allocate

SpecSample == Init /\ [][NextSample]_vars

(***************************************************************************)
(* C22  On the sample sheet every attended column is classified with the   *)
(* code and kind that the subject row declares above that column, and the  *)
(* upload leaves, for every student of the sheet that is found and every   *)
(* declared (subject, kind), one summary of the sheet's period whose       *)
(* totalAttended is the figure of that column.                             *)
(***************************************************************************)
C22_SampleColumns ==
  (UploadOk(resp) /\ resp.sheet.header = "sample") =>
     LET rows == resp.sheet.rows
         lay  == Layout(SampleSheet(rows), resp.division)
     IN  \A k \in 1..Len(SampleDeclared) :
            LET d == SampleDeclared[k]
                c == SampleCol(k)
            IN  /\ c \in DOMAIN lay.subjectMap
                /\ lay.subjectMap[c].subjectId = SubjectIdOf(d.code)
                /\ lay.subjectMap[c].type = d.type
                /\ \A i \in 1..Len(rows) :
                     \A st \in students :
                        (st.uid = rows[i].uid /\ st.division = resp.division) =>
                          LET S == {j \in 1..Len(attendance) :
                                      /\ DocKey(attendance[j])
                                           = << st.id, SubjectIdOf(d.code), d.type >>
                                      /\ attendance[j].period = lay.period}
                          IN  /\ Cardinality(S) = 1
                              /\ \A j \in S :
                                   attendance[j].totalAttended = rows[i].figures[2 * k - 1]

\* The description with the cells right of the attended cells left blank
WithoutNeighbours(desc) ==
  [desc EXCEPT !.rows = [i \in 1..Len(@) |-> [@[i] EXCEPT !.p = Blank, !.lp = Blank]]]

(***************************************************************************)
(* C23  When the header right of an attended column has no '%', the        *)
(* subject has no percentage column, and the cell right of the attended    *)
(* cell has no influence on the stored totalConducted and percentage: the  *)
(* upload stores what it stores when that cell is blank.                   *)
(***************************************************************************)
C23_NoPercentageColumn ==
  [][ UploadOk(resp') /\ resp'.sheet \in PlainSheets =>
        LET subs  == Layout(BuiltSheet(resp'.sheet), "A").subjects
            other == OutcomeOf(WithoutNeighbours(resp'.sheet))
        IN  /\ \A i \in 1..Len(subs) : subs[i].percentageCol = -1
            /\ attendance' = other.attendance ]_vars

\* The cell holds a number that is not negative
HoldsCount(cell) == ~cell.empty /\ IsCount(cell.num)

(***************************************************************************)
(* C24  When the attended cell of a student is blank, a text or a negative *)
(* number, the upload creates or updates no summary for that cell and does *)
(* not add the student to the members of the allocation of its key.        *)
(***************************************************************************)
C24_InvalidAttendedSkipped ==
  [][ UploadOk(resp') /\ resp'.sheet \in CellSheets
        /\ ~HoldsCount(resp'.sheet.rows[1].a) =>
          /\ attendance' = attendance
          /\ \A j \in 1..Len(allocations) :
                allocations'[j].students = allocations[j].students ]_vars

\* sum(totalAttended) / sum(totalConducted) * 100 over the records, 0 when
\* nothing was conducted
AggregatePercentage(records) ==
  IF SumConducted(records) > 0
    THEN Rat(SumAttended(records) * 100, SumConducted(records))
    ELSE Int2Rat(0)

(***************************************************************************)
(* C25  The report puts a student in the band of the aggregate percentage  *)
(* sum(totalAttended) / sum(totalConducted) * 100 over all summaries of    *)
(* the student in scope, whatever the order in which they are read.        *)
(***************************************************************************)
C25_AggregateBanding ==
  resp.op = "report"
    => \A st \in students :
         ( /\ recordsOf(attendance, st.id) # << >>
           /\ (resp.division # "" => st.division = resp.division) )
         => LET b == band(AggregatePercentage(recordsOf(attendance, st.id)))
            IN  /\ InBand(resp.below50, st.id) <=> b = "below50"
                /\ InBand(resp.between50to65, st.id) <=> b = "between50to65"
                /\ InBand(resp.between65_1_to74_99, st.id) <=> b = "between65_1_to74_99"

(***************************************************************************)
(* The sync with no concurrent writers: the requests that write students   *)
(* or allocations are served before the first invocation, none after it.   *)
(***************************************************************************)
\* POST /allocations for a Theory allocation without a division (line 505:
\* division || null)
UndividedAllocation ==
  [subjectId |-> "subCNS", type |-> "Theory", division |-> "", batch |-> "",
   totalPlanned |-> 0, totalConducted |-> 0, students |-> << >>, teacherId |-> "t2"]

AllocateUndivided == CreateAllocation(UndividedAllocation)

\* The term sheet uploaded for division A
UploadTerm == UploadDivisionSheet("A", TRUE, "xlsx", "none", "Term")

Quiet ==
  /\ \A c \in Calls : calls[c].pc = "idle"
  /\ \/ Allocate
     \/ AllocateUndivided
     \/ CreateStudent
     \/ UploadStudents
     \/ UploadTerm

NextQuiet == Sync \/ Quiet

SpecQuiet == Init /\ [][NextQuiet]_vars

\* The ids of the students that an allocation's criterion selects: those of
\* its division and, for a Practical allocation, of its batch
Selected(studs, a) ==
  {st.id : st \in {x \in studs : /\ x.division = a.division
                                 /\ a.type = "Practical" => x.batch = a.batch}}

InErrors(errors, i) == \E k \in 1..Len(errors) : errors[k].idx = i

(***************************************************************************)
(* C26  When a sync run that no writer interleaves with returns, every     *)
(* Theory allocation with a division holds exactly the students of the     *)
(* division and every Practical allocation with a division and a batch     *)
(* exactly the students of the division and batch; an allocation without   *)
(* them is as it was and is in the reported errors; an allocation whose    *)
(* processing failed is reported and the allocations after it are synced   *)
(* all the same.                                                           *)
(***************************************************************************)
C26_SyncResult ==
  [][ \A c \in Calls :
        (calls[c].pc = "loop" /\ calls'[c].pc = "done") =>
           /\ Len(allocations') = Len(calls[c].docs)
           /\ \A i \in 1..Len(calls[c].docs) :
                LET before == calls[c].docs[i]
                    after  == allocations'[i]
                    failed == InErrors(calls[c].errors, i)
                IN  /\ (HasQuery(before) /\ ~failed) =>
                         /\ Elems(after.students) = Selected(students', after)
                         /\ NoDuplicates(after.students)
                    /\ ~HasQuery(before) => (after = before /\ failed)
                    /\ (HasQuery(before) /\ failed) => after = before ]_vars

\* A run that removed U3 from the batch-A Practical allocation, reported the
\* Theory allocation without a division and a rejected save, and synced the
\* allocation after them
C26_Witness ==
  \E c \in Calls :
     /\ calls[c].pc = "done"
     /\ Len(calls[c].docs) = 3
     /\ Len(calls[c].errors) = 2
     /\ \E i, j, k \in 1..3 :
          /\ i < k /\ j < k
          /\ ~HasQuery(allocations[i])
          /\ InErrors(calls[c].errors, j) /\ HasQuery(allocations[j])
          /\ allocations[k].type = "Practical"
          /\ "s3" \in Elems(calls[c].docs[k].students)
          /\ Elems(allocations[k].students) = {"s1"}

(***************************************************************************)
(* The subject resolver applied to a sheet code and a catalog: the catalog *)
(* is drawn when the server starts, every request resolves one code.       *)
(***************************************************************************)
CSE == << "C", "S", "E" >>

RM == << "R", "M" >>

Research == << "R", "e", "s", "e", "a", "r", "c", "h" >>

Compilers == << "C", "o", "m", "p", "i", "l", "e", "r", "s" >>

\* Subjects that a sheet code SE matches by its code (subSE, stored as 'Se'),
\* by its name (RESEARCH includes SE) and by a part of its code (CSE includes
\* SE), and one that it does not match
CatalogPool ==
  { [id |-> "subSE",  code |-> << "S", "e" >>, name |-> SoftwareEngineering],
    [id |-> "subRM",  code |-> RM,  name |-> Research],
    [id |-> "subCSE", code |-> CSE, name |-> Compilers],
    [id |-> "subDC",  code |-> DC,  name |-> Distributed] }

\* The catalogs of distinct subjects of the pool, in every stored order
RECURSIVE CatalogsOf(_)
CatalogsOf(pool) ==
  { << >> } \cup UNION { { << s >> \o rest : rest \in CatalogsOf(pool \ {s}) } : s \in pool }

Catalogs == CatalogsOf(CatalogPool)

\* Codes as the sheet gives them: two to four capital letters
SheetCodes == { SE, CSE, RM, XY, AISC }

InitResolver ==
  /\ students = AllStudents
  /\ attendance = << >>
  /\ allocations = << >>
  /\ \E catalog \in Catalogs : resp = [op |-> "catalog", catalog |-> catalog]
  /\ prev = NoUpload
  /\ isRunning = FALSE
  /\ calls = [c \in Calls |-> IdleCall]
  /\ checks = {}

\* Lines 925-951 for one sheet subject; index 0 stands for unmatched
Resolve ==
  /\ \E code \in SheetCodes :
        resp' = [op |-> "resolve", catalog |-> resp.catalog, code |-> code,
                 index |-> dbSubject([name |-> code], resp.catalog)]
  /\ UNCHANGED << students, attendance, allocations, prev, isRunning, calls, checks >>

NextResolver == Resolve

SpecResolver == InitResolver /\ [][NextResolver]_vars

\* The three ways a catalog subject can match a sheet code
ExactCode(s, code) == toUpperCase(s.code) = toUpperCase(code)

NameContains(s, code) ==
  \/ Includes(toUpperCase(s.name), toUpperCase(code))
  \/ Includes(toUpperCase(code), toUpperCase(s.name))

CodeContains(s, code) ==
  \/ Includes(toUpperCase(s.code), toUpperCase(code))
  \/ Includes(toUpperCase(code), toUpperCase(s.code))

\* i is the first index of the catalog whose subject is in the set
IsFirst(i, S) == i \in S /\ \A j \in S : i <= j

(***************************************************************************)
(* C27  The resolver takes the first catalog subject whose code equals the *)
(* sheet code, case-insensitively; when there is none, the first whose     *)
(* name contains the sheet code or is contained in it; when there is none, *)
(* the first whose code contains the sheet code or is contained in it;     *)
(* otherwise the sheet subject is unmatched.  A subject with the exact     *)
(* code is taken wherever it is in the catalog.                            *)
(***************************************************************************)
C27_ResolverPrecedence ==
  resp.op = "resolve" =>
    LET cat    == resp.catalog
        exact  == {i \in 1..Len(cat) : ExactCode(cat[i], resp.code)}
        byName == {i \in 1..Len(cat) : NameContains(cat[i], resp.code)}
        byCode == {i \in 1..Len(cat) : CodeContains(cat[i], resp.code)}
    IN  /\ exact # {} => IsFirst(resp.index, exact)
        /\ (exact = {} /\ byName # {}) => IsFirst(resp.index, byName)
        /\ (exact = {} /\ byName = {} /\ byCode # {}) => IsFirst(resp.index, byCode)
        /\ (exact = {} /\ byName = {} /\ byCode = {}) => resp.index = 0

\* SE resolved to the subject with code SE, stored after a subject whose name
\* and a subject whose code contain SE
C27_Witness ==
  /\ resp.op = "resolve" /\ resp.code = SE
  /\ Len(resp.catalog) = 4 /\ resp.index = 4
  /\ resp.catalog[4].id = "subSE"
  /\ \E i, j \in 1..3 : /\ NameContains(resp.catalog[i], SE)
                        /\ CodeContains(resp.catalog[j], SE)

(***************************************************************************)
(* C28  A student that POST /upload-students created and linked to an      *)
(* allocation while a sync run was in progress is a member of that         *)
(* allocation when the run finishes.                                       *)
(***************************************************************************)
C28_LinkSurvivesSync ==
  [][ \A c \in Calls :
        (calls[c].pc = "loop" /\ calls'[c].pc = "done") =>
           \A link \in calls[c].linked :
              link[1] \in Elems(allocations'[link[2]].students) ]_vars

(***************************************************************************)
(* C29  Every student that an upload adds to an allocation is one that the *)
(* sync selects for the allocation (its division and, for a Practical      *)
(* allocation, its batch), so that a sync after the upload removes none of *)
(* them.                                                                   *)
(***************************************************************************)
C29_UploadAgreesWithSync ==
  [][ UploadOk(resp') =>
        \A i \in 1..Len(allocations) :
           Elems(allocations'[i].students) \ Elems(allocations[i].students)
             \subseteq Selected(students, allocations[i]) ]_vars

(***************************************************************************)
(* C30  isRunning is true exactly while an invocation is in progress: the  *)
(* step that ends a run, by return or by throw, resets it, and an          *)
(* invocation made when no run is in progress is not skipped.              *)
(***************************************************************************)
C30_FlagFollowsRun ==
  /\ [](isRunning <=> Running(calls) # {})
  /\ [][ \A c \in Calls :
           /\ (calls[c].pc \in InProgress /\ calls'[c].pc \in {"done", "failed"})
                 => ~isRunning'
           /\ (calls[c].pc = "idle" /\ calls'[c].pc # "idle" /\ Running(calls) = {})
                 => (calls'[c].pc = "find" /\ isRunning') ]_vars

\* A run that threw, and after it the run of the next invocation in progress
C30_Witness ==
  /\ isRunning
  /\ \E c, d \in Calls :
       /\ calls[c].pc = "failed"
       /\ calls[d].pc = "loop"

====
